---- MODULE Spec2Model ----
(***************************************************************************)
(* Conversation normalization pipeline of the DuckDB extension:            *)
(*   - ReadConversationsVTab::load_rows  (src/src/conversations.rs)        *)
(*     the per-file line scan with the working-directory accumulator and   *)
(*     the backfill pass;                                                  *)
(*   - the batch cursor of the table function: bind / init / func          *)
(*     (src/src/conversations.rs and src/src/vtab.rs);                     *)
(*   - the projection of one record, message_to_row with the typed         *)
(*     decoding of src/src/types.rs and utils::extract_text_content;       *)
(*   - the provider resolver (src/src/detect.rs);                          *)
(*   - file discovery, utils::discover_conversation_files, and the scan    *)
(*     of a directory tree as one call of load_rows;                       *)
(*   - the history table, History::load_rows (src/src/history.rs);         *)
(*   - the discovery functions on their own, discover_conversation_files   *)
(*     and discover_copilot_event_files (src/src/utils.rs);                *)
(*   - the loaders of whole-document JSON files: todo lists                *)
(*     (src/src/todos.rs), the stats cache (src/src/stats.rs) and the      *)
(*     command history of provider B (src/src/history.rs).                 *)
(*                                                                         *)
(* Strings are sequences of one-character strings, so that                 *)
(* decode_project_path and extract_session_id_from_filename are computed   *)
(* character by character.  Option<T> is NoneV or Some(v).                 *)
(***************************************************************************)
EXTENDS Integers, Sequences, FiniteSets, TLC

(***************************************************************************)
(* Bounds of the model.                                                    *)
(***************************************************************************)
\* physical lines read in one scan, all files together
MaxPhysicalLines == 3
\* calls of func one query execution receives
MaxPulls == 5

(***************************************************************************)
(* Constants of the program.                                               *)
(***************************************************************************)
\* func: std::cmp::min(2048, rows.len() - offset)
PageSize == 2048

(***************************************************************************)
(* Option<T>                                                               *)
(***************************************************************************)
NoneV == [some |-> FALSE, v |-> <<>>]
Some(x) == [some |-> TRUE, v |-> x]
IsSome(o) == o.some
IsNone(o) == ~o.some
\* Option::unwrap_or_else
UnwrapOr(o, d) == IF o.some THEN o.v ELSE d

(***************************************************************************)
(* Strings                                                                 *)
(***************************************************************************)
StartsWith(s, p) == Len(s) >= Len(p) /\ SubSeq(s, 1, Len(p)) = p
EndsWith(s, p) == Len(s) >= Len(p) /\ SubSeq(s, Len(s) - Len(p) + 1, Len(s)) = p
\* str::replace('-', "/")
ReplaceDash(s) == [i \in 1..Len(s) |-> IF s[i] = "-" THEN "/" ELSE s[i]]

JsonlSuffix == <<".", "j", "s", "o", "n", "l">>
AgentPrefix == <<"a", "g", "e", "n", "t", "-">>

\* utils::decode_project_path
decode_project_path(encoded) ==
    IF StartsWith(encoded, <<"-">>)
    THEN <<"/">> \o ReplaceDash(SubSeq(encoded, 2, Len(encoded)))
    ELSE ReplaceDash(encoded)

\* utils::extract_session_id_from_filename: strip_suffix(".jsonl").unwrap_or(filename)
extract_session_id_from_filename(filename) ==
    IF EndsWith(filename, JsonlSuffix)
    THEN SubSeq(filename, 1, Len(filename) - Len(JsonlSuffix))
    ELSE filename

(***************************************************************************)
(* The discovered files.  An entry of discover_conversation_files is       *)
(* (project_dir_encoded, is_agent, file_path); the list is sorted by       *)
(* (directory name, file name).                                            *)
(***************************************************************************)
DirA == <<"-", "a">>
DirB == <<"-", "b">>
NameAgent == AgentPrefix \o <<"x">> \o JsonlSuffix
NameS == <<"s">> \o JsonlSuffix
NameT == <<"t">> \o JsonlSuffix

FileEntry(dir, name) ==
    [project_dir |-> dir, is_agent |-> StartsWith(name, AgentPrefix), file_name |-> name]

\* every file of the directory tree, in discovery order
FileUniverse ==
    << FileEntry(DirA, NameAgent), FileEntry(DirA, NameS), FileEntry(DirB, NameT) >>

RECURSIVE SubLists(_)
SubLists(s) ==
    IF s = <<>> THEN {<<>>}
    ELSE LET rest == SubLists(Tail(s))
         IN rest \cup {<<Head(s)>> \o r : r \in rest}

\* what discovery returns for the trees that hold none, one or two of these
\* files: two files of one project directory, or of two
FileLists == {s \in SubLists(FileUniverse) : Len(s) < Len(FileUniverse)}

(***************************************************************************)
(* Physical lines.  A line is blank (empty or white space only),           *)
(* unreadable (reader.lines() yields Err, e.g. invalid UTF-8), garbage     *)
(* (not JSON), or a JSON object with a type tag and the fields the scan    *)
(* looks at.                                                               *)
(***************************************************************************)
CwdW == <<"/", "w">>
CwdA == <<"/", "a">>
EmptyStr == <<>>

\* a JSON object line: the keys the decoder and the projector look at
\* ("message" of user and assistant records, "content" of system and
\* queue-operation records, "summary" of summary records); absent keys are NoneV
Line(kind, tag, cwd, sid) ==
    [kind |-> kind, tag |-> tag, cwd |-> cwd, sessionId |-> sid,
     message |-> NoneV, content |-> NoneV, summary |-> NoneV]
BlankLine == Line("blank", "", NoneV, NoneV)
UnreadableLine == Line("unreadable", "", NoneV, NoneV)
GarbageLine == Line("garbage", "", NoneV, NoneV)
JsonLine(tag, cwd) == Line("json", tag, cwd, NoneV)

\* the lines a file of the model can hold
Lines ==
    { BlankLine, UnreadableLine, GarbageLine,
      JsonLine("summary", NoneV),
      JsonLine("user", NoneV),
      JsonLine("user", Some(EmptyStr)),
      JsonLine("user", Some(CwdW)),
      JsonLine("user", Some(CwdA)) }

\* the variants of ConversationMessage (serde tag = "type")
MessageTags ==
    {"user", "assistant", "system", "file-history-snapshot", "queue-operation", "summary"}
\* the variants that embed BaseFields
BaseTags == {"user", "assistant", "system"}

\* reader.lines(): Ok(l) or Err(_)
LineReadOk(l) == l.kind # "unreadable"
\* line.trim().is_empty()
LineIsBlank(l) == l.kind = "blank"

(***************************************************************************)
(* JSON values (serde_json::Value) of the "content" and "input" keys, and  *)
(* the typed decoding of the message of a record.                          *)
(***************************************************************************)
JStr(s) == [t |-> "string", s |-> s]
JNum(n) == [t |-> "number", n |-> n]
JArr(items) == [t |-> "array", items |-> items]
JObj(keys) == [t |-> "object", keys |-> keys]

Digits == <<"0", "1", "2", "3", "4", "5", "6", "7", "8", "9">>
Quote == "\""
NewLine == "\n"

\* serde_json::Value::to_string, for the values of the model: a string is
\* quoted, a one-digit number is its digit, an object of string keys without
\* values of interest is written {"k":null,...}; arrays are written [..]
RECURSIVE KeysText(_)
KeysText(keys) ==
    IF keys = <<>> THEN <<>>
    ELSE <<Quote>> \o Head(keys) \o <<Quote, ":", "n", "u", "l", "l">>
         \o (IF Len(keys) > 1 THEN <<",">> ELSE <<>>) \o KeysText(Tail(keys))
ValueToString(v) ==
    IF v.t = "string" THEN <<Quote>> \o v.s \o <<Quote>>
    ELSE IF v.t = "number" THEN <<Digits[v.n + 1]>>
    ELSE IF v.t = "object" THEN <<"{">> \o KeysText(v.keys) \o <<"}">>
    ELSE <<"[", "]">>

\* a content block as it stands in the JSON text: every key may be absent
Block(type, text, id, name, input) ==
    [type |-> type, text |-> text, id |-> id, name |-> name, input |-> input]

\* the variants of ContentBlock (serde tag = "type")
BlockTags == {"text", "thinking", "tool_use", "tool_result"}

\* a block deserializes as ContentBlock: the tag is a known variant, and the
\* text variant has its required text: String
BlockDecodeOk(b) ==
    /\ IsSome(b.type)
    /\ b.type.v \in BlockTags
    /\ b.type.v = "text" => (IsSome(b.text) /\ b.text.v.t = "string")

\* message deserializes as AssistantMessageContent: content, when present, is
\* a Vec<ContentBlock>
AssistantMessageDecodeOk(m) ==
    IsSome(m) /\ IsSome(m.v.content) =>
        /\ m.v.content.v.t = "array"
        /\ \A i \in 1..Len(m.v.content.v.items) : BlockDecodeOk(m.v.content.v.items[i])

\* serde_json::from_str::<ConversationMessage>(&line) is Ok
DecodeOk(l) ==
    /\ l.kind = "json"
    /\ l.tag \in MessageTags
    /\ l.tag = "assistant" => AssistantMessageDecodeOk(l.message)
    /\ l.tag = "queue-operation" => (IsSome(l.content) => l.content.v.t = "string")

\* the serde_json error text of a line that does not decode
DecodeError(l) ==
    IF l.kind # "json" THEN "expected value at line 1 column 1"
    ELSE IF l.tag = "" THEN "missing field type"
    ELSE IF l.tag \notin MessageTags THEN "unknown variant"
    ELSE IF l.tag = "queue-operation" THEN "invalid type, expected a string"
    ELSE IF l.message.v.content.v.t # "array" THEN "invalid type, expected a sequence"
    ELSE "invalid content block"

(***************************************************************************)
(* ConversationRow (the fields the scan and the backfill read or write)    *)
(***************************************************************************)
Row(session_id, project_path, project_dir, file_name, is_agent, line_number, message_type, message_content, cwd) ==
    [session_id |-> session_id, project_path |-> project_path,
     project_dir |-> project_dir, file_name |-> file_name, is_agent |-> is_agent,
     line_number |-> line_number, message_type |-> message_type,
     message_content |-> message_content, cwd |-> cwd,
     message_role |-> NoneV, tool_name |-> NoneV, tool_use_id |-> NoneV,
     tool_input |-> NoneV, input_tokens |-> NoneV, output_tokens |-> NoneV,
     cache_creation_tokens |-> NoneV, cache_read_tokens |-> NoneV]

\* Option::map and Option::and_then
OptMap(o, F(_)) == IF IsSome(o) THEN Some(F(o.v)) ELSE NoneV
AndThen(o, F(_)) == IF IsSome(o) THEN F(o.v) ELSE NoneV

\* [String]::join("\n")
RECURSIVE JoinLines(_)
JoinLines(texts) ==
    IF texts = <<>> THEN <<>>
    ELSE IF Len(texts) = 1 THEN texts[1]
    ELSE texts[1] \o <<NewLine>> \o JoinLines(Tail(texts))

\* item.get("text").and_then(|t| t.as_str()) is Some
HasTextStr(b) == IsSome(b.text) /\ b.text.v.t = "string"

\* utils::extract_text_content
extract_text_content(value) ==
    IF value.t = "string" THEN value.s
    ELSE IF value.t = "array"
    THEN LET items == SelectSeq(value.items, HasTextStr)
         IN  JoinLines([i \in 1..Len(items) |-> items[i].text.v.s])
    ELSE ValueToString(value)

\* message_to_row, Assistant: the texts of the ContentBlock::Text blocks, joined
AssistantText(blocks) ==
    LET IsText(b) == b.type.v = "text"
        items == SelectSeq(blocks.items, IsText)
    IN  JoinLines([i \in 1..Len(items) |-> items[i].text.v.s])

IsToolUse(b) == b.type.v = "tool_use"

\* a slip: the last ContentBlock::ToolUse block is taken
LastToolUse(blocks) ==
    LET tools == SelectSeq(blocks.items, IsToolUse)
    IN  IF tools = <<>> THEN NoneV ELSE Some(tools[Len(tools)])

\* message_to_row, Assistant: blocks.iter().find_map(ContentBlock::ToolUse ...)
FirstToolUse(blocks) ==
    LET tools == SelectSeq(blocks.items, IsToolUse)
    IN  IF tools = <<>> THEN NoneV ELSE Some(tools[1])

\* a slip: usage.and_then(...).unwrap_or(0)
UsageTokensOrZero(usage, field) ==
    IF IsSome(usage) THEN Some(UnwrapOr(usage.v[field], 0)) ELSE Some(0)

\* message_to_row, Assistant: usage.and_then(|u| u.<field>)
UsageTokens(usage, field) ==
    IF IsSome(usage) THEN usage.v[field] ELSE NoneV

\* ReadConversationsVTab::message_to_row, for a line that decoded
message_to_row(msg, project_dir, file_name, is_agent, file_session_id, line_number) ==
    LET fallback_project_path == decode_project_path(project_dir)
        Content(m) == m.content
        Usage(m) == m.usage
        ToolName(b) == b.name
        ToolId(b) == b.id
        ToolInput(b) == OptMap(b.input, ValueToString)
        StringOf(v) == v.s
    IN  IF msg.tag = "user"
        THEN [Row(UnwrapOr(msg.sessionId, file_session_id),
                  UnwrapOr(msg.cwd, fallback_project_path),
                  project_dir, file_name, is_agent, line_number, "user",
                  OptMap(AndThen(msg.message, Content), extract_text_content),
                  msg.cwd)
              EXCEPT !.message_role = Some("user")]
        ELSE IF msg.tag = "assistant"
        THEN LET blocks == AndThen(msg.message, Content)
                 tool_info == AndThen(blocks, FirstToolUse)
                 usage == AndThen(msg.message, Usage)
             IN  [Row(UnwrapOr(msg.sessionId, file_session_id),
                      UnwrapOr(msg.cwd, fallback_project_path),
                      project_dir, file_name, is_agent, line_number, "assistant",
                      OptMap(blocks, AssistantText), msg.cwd)
                  EXCEPT !.message_role = Some("assistant"),
                         !.tool_name = AndThen(tool_info, ToolName),
                         !.tool_use_id = AndThen(tool_info, ToolId),
                         !.tool_input = AndThen(tool_info, ToolInput),
                         !.input_tokens = UsageTokens(usage, "input_tokens"),
                         !.output_tokens = UsageTokens(usage, "output_tokens"),
                         !.cache_creation_tokens =
                             UsageTokens(usage, "cache_creation_input_tokens"),
                         !.cache_read_tokens =
                             UsageTokens(usage, "cache_read_input_tokens")]
        ELSE IF msg.tag = "system"
        THEN Row(UnwrapOr(msg.sessionId, file_session_id),
                 UnwrapOr(msg.cwd, fallback_project_path),
                 project_dir, file_name, is_agent, line_number, "system",
                 OptMap(msg.content, extract_text_content), msg.cwd)
        ELSE IF msg.tag = "summary"
        THEN Row(file_session_id, fallback_project_path,
                 project_dir, file_name, is_agent, line_number, "summary",
                 msg.summary, NoneV)
        ELSE IF msg.tag = "file-history-snapshot"
        THEN Row(file_session_id, fallback_project_path,
                 project_dir, file_name, is_agent, line_number,
                 "file-history-snapshot", NoneV, NoneV)
        ELSE Row(UnwrapOr(msg.sessionId, file_session_id), fallback_project_path,
                 project_dir, file_name, is_agent, line_number,
                 "queue-operation", OptMap(msg.content, StringOf), NoneV)

\* the row load_rows synthesizes for a line that does not decode
ParseErrorRow(l, project_dir, file_name, is_agent, file_session_id, line_number) ==
    Row(file_session_id, decode_project_path(project_dir), project_dir, file_name,
        is_agent, line_number, "_parse_error",
        Some(<<"Parse error: ", DecodeError(l)>>), NoneV)

\* a slip: the line counter advances only for the lines that reach the decoder
FileLineCountingEmitted(l, n) ==
    IF LineReadOk(l) /\ ~LineIsBlank(l) THEN n + 1 ELSE n

\* load_rows: file_line += 1, at the head of the line loop, whatever the line is
NextFileLine(l, n) == n + 1

\* a slip: a line that does not decode is dropped like a blank one
LineRowsDroppingMalformed(l, f, sid, n) ==
    IF ~LineReadOk(l) THEN <<>>
    ELSE IF LineIsBlank(l) THEN <<>>
    ELSE IF DecodeOk(l)
    THEN <<message_to_row(l, f.project_dir, f.file_name, f.is_agent, sid, n)>>
    ELSE <<>>

\* load_rows: the rows one physical line adds (none, or one)
LineRows(l, f, sid, n) ==
    IF ~LineReadOk(l) THEN <<>>
    ELSE IF LineIsBlank(l) THEN <<>>
    ELSE IF DecodeOk(l)
    THEN <<message_to_row(l, f.project_dir, f.file_name, f.is_agent, sid, n)>>
    ELSE <<ParseErrorRow(l, f.project_dir, f.file_name, f.is_agent, sid, n)>>

\* load_rows: if file_cwd.is_none() && row.cwd.is_some() { file_cwd = row.cwd.clone() }
AccumulateCwd(acc, row) ==
    IF IsNone(acc) /\ IsSome(row.cwd) THEN row.cwd ELSE acc

\* a slip: rows.insert(0, row)
PushRowsFront(rs, new) == new \o rs

\* load_rows: rows.push(row)
PushRows(rs, new) == rs \o new

\* a slip: the pass starts one row late, rows[file_rows_start + 1..]
BackfillStartingLate(rs, start, acc, project_dir) ==
    IF IsSome(acc)
    THEN LET fallback == decode_project_path(project_dir)
         IN  [i \in 1..Len(rs) |->
                IF i > start + 1 /\ rs[i].project_path = fallback
                THEN [rs[i] EXCEPT !.project_path = acc.v]
                ELSE rs[i]]
    ELSE rs

\* a slip: the pass fills the cwd column too
BackfillWritingCwd(rs, start, acc, project_dir) ==
    IF IsSome(acc)
    THEN LET fallback == decode_project_path(project_dir)
         IN  [i \in 1..Len(rs) |->
                IF i > start /\ rs[i].project_path = fallback
                THEN [rs[i] EXCEPT !.project_path = acc.v, !.cwd = acc]
                ELSE rs[i]]
    ELSE rs

\* a slip: the pass runs over the whole list, rows[..]
BackfillWholeList(rs, start, acc, project_dir) ==
    IF IsSome(acc)
    THEN LET fallback == decode_project_path(project_dir)
         IN  [i \in 1..Len(rs) |->
                IF rs[i].project_path = fallback
                THEN [rs[i] EXCEPT !.project_path = acc.v]
                ELSE rs[i]]
    ELSE rs

\* load_rows: the backfill pass over rows[file_rows_start..]
Backfill(rs, start, acc, project_dir) ==
    IF IsSome(acc)
    THEN LET fallback == decode_project_path(project_dir)
         IN  [i \in 1..Len(rs) |->
                IF i > start /\ rs[i].project_path = fallback
                THEN [rs[i] EXCEPT !.project_path = acc.v]
                ELSE rs[i]]
    ELSE rs

VARIABLES
    files,            \* the discovered files, in discovery order
    disk,             \* disk[i]: whether files[i] opened, and the lines read from it so far
    pc,               \* "open": head of the file loop; "lines": in the line loop; "done"
    file_line,        \* load_rows: file_line
    file_rows_start,  \* load_rows: file_rows_start
    file_cwd,         \* load_rows: file_cwd
    rows,             \* load_rows: rows
    qstate,           \* qstate[q]: "new", "bound" (bind returned), "ready" (init returned)
    bind_rows,        \* bind_rows[q]: BindData.rows of query execution q
    mutex,            \* mutex[q]: the thread holding the Mutex of BindData.rows (0: free)
    init_data,        \* init_data[q]: the InitData object of query execution q (0: none)
    offset,           \* offset[c]: InitData.offset of the InitData object c
    tq,               \* tq[t]: the query execution whose func thread t runs
    tpc,              \* tpc[t]: "idle", or "entered" (in func, lock held, offset loaded)
    t_offset,         \* func: the local offset of thread t
    output,           \* output[t]: the rows of the chunk the last func of thread t filled
    page_sizes,       \* page_sizes[q]: the lengths of the chunks returned for q, in order
    delivered,        \* delivered[q]: the rows returned for q so far, in order
    root,             \* the root directory: what the file system holds under it
    source,           \* the explicit provider hint of the call (Option<&str>)
    resolved,         \* what detect::resolve_provider returned (NoneV: not called)
    scans,            \* the results of the conversation scans of root, in call order
    hist,             \* what History::load_rows returned (NoneV: not called)
    first_pull,       \* the chunk lengths of the first func call on each result
    discovered,       \* what a discovery call returned (NoneV: not called)
    docs              \* the results of the loads of whole-document JSON files

scanvars == <<files, disk, pc, file_line, file_rows_start, file_cwd, rows>>
pagevars == <<qstate, bind_rows, mutex, init_data, offset, tq, tpc, t_offset, output,
              page_sizes, delivered>>
rootvars == <<root, source, resolved, scans, hist, first_pull, discovered, docs>>
vars == <<scanvars, pagevars, rootvars>>

Queries == {1, 2}
Threads == {1, 2}

\* no query execution exists
PageIdle ==
    /\ qstate = [q \in Queries |-> "new"]
    /\ bind_rows = [q \in Queries |-> <<>>]
    /\ mutex = [q \in Queries |-> 0]
    /\ init_data = [q \in Queries |-> 0]
    /\ offset = <<>>
    /\ tq = [t \in Threads |-> t]
    /\ tpc = [t \in Threads |-> "idle"]
    /\ t_offset = [t \in Threads |-> 0]
    /\ output = [t \in Threads |-> <<>>]
    /\ page_sizes = [q \in Queries |-> <<>>]
    /\ delivered = [q \in Queries |-> <<>>]

\* a file of the root directory that does not exist or cannot be opened
AbsentFile == [ok |-> FALSE, lines |-> <<>>]
\* a directory entry of the root that does not exist
AbsentDir == [kind |-> "absent", entries |-> {}]
\* the root directory does not exist
NoRoot ==
    [exists |-> FALSE, projects |-> AbsentDir, session_state |-> AbsentDir,
     history |-> AbsentFile, command_history |-> AbsentFile]

\* no provider is being resolved and no root directory is being scanned
RootIdle ==
    /\ root = NoRoot
    /\ source = NoneV
    /\ resolved = NoneV
    /\ scans = <<>>
    /\ hist = NoneV
    /\ first_pull = <<>>
    /\ discovered = NoneV
    /\ docs = <<>>

\* index in files of the file being processed (the last one begun)
fileIdx == Len(disk)
CurFile == files[fileIdx]

RECURSIVE SumLines(_)
SumLines(d) == IF d = <<>> THEN 0 ELSE Len(Head(d).lines) + SumLines(Tail(d))

Init ==
    /\ files \in FileLists
    /\ disk = <<>>
    /\ pc = "open"
    /\ file_line = 0
    /\ file_rows_start = 0
    /\ file_cwd = NoneV
    /\ rows = <<>>
    /\ PageIdle
    /\ RootIdle

\* a slip: Err(_) => return rows
OnOpenErrorReturn == "done"

\* load_rows: Err(_) => continue, back to the head of the file loop
OnOpenError == "open"

\* a slip: the accumulator is declared outside the file loop
KeptFileCwd(prev) == prev

\* load_rows: let mut file_cwd: Option<String> = None, once per file
NewFileCwd(prev) == NoneV

\* for (project_dir, is_agent, file_path) in &files: File::open fails -> continue
SkipFile ==
    /\ pc = "open"
    /\ fileIdx < Len(files)
    /\ disk' = Append(disk, [ok |-> FALSE, lines |-> <<>>])
    /\ pc' = OnOpenError
    /\ UNCHANGED <<files, file_line, file_rows_start, file_cwd, rows, pagevars, rootvars>>

\* File::open succeeds: the locals of the file are set up
OpenFile ==
    /\ pc = "open"
    /\ fileIdx < Len(files)
    /\ disk' = Append(disk, [ok |-> TRUE, lines |-> <<>>])
    /\ file_line' = 0
    /\ file_rows_start' = Len(rows)
    /\ file_cwd' = NewFileCwd(file_cwd)
    /\ pc' = "lines"
    /\ UNCHANGED <<files, rows, pagevars, rootvars>>

\* one iteration of: for line_result in reader.lines()
ReadLine ==
    /\ pc = "lines"
    /\ SumLines(disk) < MaxPhysicalLines
    /\ \E l \in Lines :
         LET n == NextFileLine(l, file_line)
             new == LineRows(l, CurFile, extract_session_id_from_filename(CurFile.file_name), n)
         IN  /\ disk' = [disk EXCEPT ![fileIdx].lines = Append(@, l)]
             /\ file_line' = n
             /\ rows' = PushRows(rows, new)
             /\ file_cwd' = IF new # <<>> /\ DecodeOk(l)
                            THEN AccumulateCwd(file_cwd, new[1])
                            ELSE file_cwd
    /\ UNCHANGED <<files, pc, file_rows_start, pagevars, rootvars>>

\* reader.lines() is exhausted: the backfill pass, then the next file
EndOfFile ==
    /\ pc = "lines"
    /\ rows' = Backfill(rows, file_rows_start, file_cwd, CurFile.project_dir)
    /\ pc' = "open"
    /\ UNCHANGED <<files, disk, file_line, file_rows_start, file_cwd, pagevars, rootvars>>

\* the file loop is over: load_rows returns rows
Return ==
    /\ pc = "open"
    /\ fileIdx = Len(files)
    /\ pc' = "done"
    /\ UNCHANGED <<files, disk, file_line, file_rows_start, file_cwd, rows, pagevars, rootvars>>

Next == SkipFile \/ OpenFile \/ ReadLine \/ EndOfFile \/ Return

Spec == Init /\ [][Next]_vars

(***************************************************************************)
(* The projection of one record: load_rows over one discovered file that   *)
(* holds one line, the line drawn from the records below (every variant,   *)
(* with and without an embedded session id, contents that are absent, a    *)
(* string, a number or an array of blocks, usage objects with fields       *)
(* absent or present).                                                     *)
(***************************************************************************)
\* content blocks in one content array
MaxBlocks == 2

SessE == <<"e">>
TextH == <<"h", "i">>
TextT == <<"t">>
IdA == <<"i", "d", "A">>
IdB == <<"i", "d", "B">>
NameBash == <<"B", "a", "s", "h">>
NameRead == <<"R", "e", "a", "d">>

TextBlock == Block(Some("text"), Some(JStr(TextH)), NoneV, NoneV, NoneV)
TextBlockNoText == Block(Some("text"), NoneV, NoneV, NoneV, NoneV)
ThinkingBlockWithText == Block(Some("thinking"), Some(JStr(TextT)), NoneV, NoneV, NoneV)
ToolUseFull == Block(Some("tool_use"), NoneV, Some(IdA), Some(NameBash), Some(JObj(<<TextT>>)))
ToolUseNoName == Block(Some("tool_use"), NoneV, Some(IdB), NoneV, Some(JStr(TextT)))
ToolUseBare == Block(Some("tool_use"), NoneV, NoneV, Some(NameRead), NoneV)
ToolResultBlock == Block(Some("tool_result"), NoneV, NoneV, NoneV, NoneV)
ImageBlock == Block(Some("image"), NoneV, NoneV, NoneV, NoneV)

BlockUniverse ==
    { TextBlock, TextBlockNoText, ThinkingBlockWithText, ToolUseFull, ToolUseNoName,
      ToolUseBare, ToolResultBlock, ImageBlock }

\* the arrays of at most MaxBlocks blocks
BlockArrays ==
    UNION { [1..n -> BlockUniverse] : n \in 0..MaxBlocks }

\* the values of a "content" key
Contents ==
    {NoneV, Some(JStr(TextH)), Some(JStr(EmptyStr)), Some(JNum(7))}
        \cup { Some(JArr(a)) : a \in BlockArrays }

UsageInfo(i, o, cc, cr) ==
    [input_tokens |-> i, output_tokens |-> o,
     cache_creation_input_tokens |-> cc, cache_read_input_tokens |-> cr]

\* the values of a "usage" key
Usages ==
    { NoneV,
      Some(UsageInfo(NoneV, NoneV, NoneV, NoneV)),
      Some(UsageInfo(Some(0), NoneV, Some(5), NoneV)),
      Some(UsageInfo(Some(3), Some(0), NoneV, Some(9))) }

Message(content, usage) == [content |-> content, usage |-> usage]

\* the values of a "message" key
Messages ==
    {NoneV} \cup { Some(Message(c, u)) : c \in Contents, u \in Usages }
UserMessages ==
    {NoneV} \cup { Some(Message(c, NoneV)) : c \in Contents }

SessionIds == {NoneV, Some(SessE)}

\* the records of the projection: "progress" is a tag outside the enum
ProjRecords ==
    { [Line("json", "user", NoneV, sid) EXCEPT !.message = m] :
          sid \in SessionIds, m \in UserMessages }
    \cup
    { [Line("json", "assistant", NoneV, sid) EXCEPT !.message = m] :
          sid \in SessionIds, m \in Messages }
    \cup
    { [Line("json", "system", NoneV, sid) EXCEPT !.content = c] :
          sid \in SessionIds, c \in Contents }
    \cup
    { [Line("json", "summary", NoneV, sid) EXCEPT !.summary = t] :
          sid \in SessionIds, t \in {NoneV, Some(TextH)} }
    \cup
    { [Line("json", "queue-operation", NoneV, sid) EXCEPT !.content = c] :
          sid \in SessionIds, c \in {NoneV, Some(JStr(TextH)), Some(JNum(7))} }
    \cup
    { Line("json", tag, NoneV, sid) :
          tag \in {"file-history-snapshot", "progress"}, sid \in SessionIds }

\* discovery found one file
InitRow ==
    /\ files \in { <<FileUniverse[i]>> : i \in 1..Len(FileUniverse) }
    /\ disk = <<>>
    /\ pc = "open"
    /\ file_line = 0
    /\ file_rows_start = 0
    /\ file_cwd = NoneV
    /\ rows = <<>>
    /\ PageIdle
    /\ RootIdle

\* the iteration of: for line_result in reader.lines(), for the one line of the file
ReadRecord ==
    /\ pc = "lines"
    /\ disk[fileIdx].lines = <<>>
    /\ \E l \in ProjRecords :
         LET n == NextFileLine(l, file_line)
             new == LineRows(l, CurFile, extract_session_id_from_filename(CurFile.file_name), n)
         IN  /\ disk' = [disk EXCEPT ![fileIdx].lines = Append(@, l)]
             /\ file_line' = n
             /\ rows' = PushRows(rows, new)
             /\ file_cwd' = IF new # <<>> /\ DecodeOk(l)
                            THEN AccumulateCwd(file_cwd, new[1])
                            ELSE file_cwd
    /\ UNCHANGED <<files, pc, file_rows_start, pagevars, rootvars>>

NextRow == OpenFile \/ ReadRecord \/ EndOfFile \/ Return

SpecRow == InitRow /\ [][NextRow]_vars

(***************************************************************************)
(* The provider resolver (src/src/detect.rs): resolve_provider over the    *)
(* shapes of the root directory and the explicit hints, among them every   *)
(* letter-case variant of the two provider names.                          *)
(***************************************************************************)
LowerLetters ==
    <<"a", "b", "c", "d", "e", "f", "g", "h", "i", "j", "k", "l", "m",
      "n", "o", "p", "q", "r", "s", "t", "u", "v", "w", "x", "y", "z">>
UpperLetters ==
    <<"A", "B", "C", "D", "E", "F", "G", "H", "I", "J", "K", "L", "M",
      "N", "O", "P", "Q", "R", "S", "T", "U", "V", "W", "X", "Y", "Z">>

\* char::to_lowercase, on the characters of the model
CharToLower(c) ==
    IF \E i \in 1..Len(UpperLetters) : UpperLetters[i] = c
    THEN LowerLetters[CHOOSE i \in 1..Len(UpperLetters) : UpperLetters[i] = c]
    ELSE c
\* str::to_lowercase
to_lowercase(str) == [i \in 1..Len(str) |-> CharToLower(str[i])]

ClaudeName == <<"c", "l", "a", "u", "d", "e">>
CopilotName == <<"c", "o", "p", "i", "l", "o", "t">>

\* a slip: session-state is tested before projects
detect_provider_session_state_first(path) ==
    IF path.session_state.kind = "dir" THEN "Copilot"
    ELSE IF path.projects.kind = "dir" THEN "Claude"
    ELSE "Unknown"

\* detect::detect_provider
detect_provider(path) ==
    IF path.projects.kind = "dir" THEN "Claude"
    ELSE IF path.session_state.kind = "dir" THEN "Copilot"
    ELSE "Unknown"

\* a slip: the match is made on the hint as given, without to_lowercase
parse_source_as_given(src) ==
    IF src = ClaudeName THEN "Claude"
    ELSE IF src = CopilotName THEN "Copilot"
    ELSE "Unknown"

\* detect::parse_source
parse_source(src) ==
    LET lowered == to_lowercase(src)
    IN  IF lowered = ClaudeName THEN "Claude"
        ELSE IF lowered = CopilotName THEN "Copilot"
        ELSE "Unknown"

\* detect::resolve_provider
resolve_provider(path, src) ==
    IF IsSome(src) /\ parse_source(src.v) # "Unknown"
    THEN parse_source(src.v)
    ELSE detect_provider(path)

\* the spellings of a provider name in every letter case
CaseVariants(word) ==
    { [i \in 1..Len(word) |->
         IF up[i]
         THEN UpperLetters[CHOOSE k \in 1..Len(LowerLetters) : LowerLetters[k] = word[i]]
         ELSE word[i]] : up \in [1..Len(word) -> BOOLEAN] }

\* the hints of a call: none, the provider names in any case, and others
Hints ==
    {NoneV} \cup
    { Some(h) : h \in CaseVariants(ClaudeName) \cup CaseVariants(CopilotName)
                      \cup { EmptyStr, <<"c", "l", "a", "u", "d">>,
                             ClaudeName \o <<" ">>, <<"g", "p", "t">> } }

EntryKinds == {"absent", "file", "dir"}

\* the root directories as detect_provider sees them: what projects and
\* session-state are
ShapeRoots ==
    {NoRoot} \cup
    { [NoRoot EXCEPT !.exists = TRUE, !.projects.kind = p, !.session_state.kind = ss] :
          p \in EntryKinds, ss \in EntryKinds }

\* load_rows is not running
ScanIdle ==
    /\ files = <<>>
    /\ disk = <<>>
    /\ pc = "done"
    /\ file_line = 0
    /\ file_rows_start = 0
    /\ file_cwd = NoneV
    /\ rows = <<>>

InitResolve ==
    /\ ScanIdle
    /\ PageIdle
    /\ root \in ShapeRoots
    /\ source \in Hints
    /\ resolved = NoneV
    /\ scans = <<>>
    /\ hist = NoneV
    /\ first_pull = <<>>
    /\ discovered = NoneV
    /\ docs = <<>>

\* a call of detect::resolve_provider(path, source)
Resolve ==
    /\ resolved = NoneV
    /\ resolved' = Some(resolve_provider(root, source))
    /\ UNCHANGED <<scanvars, pagevars, root, source, scans, hist, first_pull, discovered, docs>>

NextResolve == Resolve

SpecResolve == InitResolve /\ [][NextResolve]_vars

(***************************************************************************)
(* File discovery (utils::discover_conversation_files) and the scan of a   *)
(* root directory as one call of load_rows.  The projects directory holds  *)
(* entries (name, is_dir, children); a child is (name, body), the body     *)
(* being whether the file opens and the lines it holds.  read_dir returns  *)
(* the entries of a directory in an order the file system chooses.         *)
(***************************************************************************)
\* the characters of file names, in byte order
AsciiOrder == <<"-", ".">> \o UpperLetters \o LowerLetters
CharRank(c) == CHOOSE i \in 1..Len(AsciiOrder) : AsciiOrder[i] = c

\* OsString::cmp, a <= b: byte-wise lexicographic
RECURSIVE StrLessEq(_, _)
StrLessEq(a, b) ==
    IF a = <<>> THEN TRUE
    ELSE IF b = <<>> THEN FALSE
    ELSE IF Head(a) = Head(b) THEN StrLessEq(Tail(a), Tail(b))
    ELSE CharRank(Head(a)) < CharRank(Head(b))

\* the place of x in a list sorted by name: after every entry that is <= x
RECURSIVE InsertByName(_, _)
InsertByName(sorted, x) ==
    IF sorted = <<>> THEN <<x>>
    ELSE IF StrLessEq(sorted[Len(sorted)].name, x.name) THEN Append(sorted, x)
    ELSE Append(InsertByName(SubSeq(sorted, 1, Len(sorted) - 1), x), sorted[Len(sorted)])

\* a slip: the entries are left in read_dir order
unsorted(entries) == entries

\* Vec::sort_by_key(|e| e.file_name()): a stable sort by name
RECURSIVE sort_by_key(_)
sort_by_key(entries) ==
    IF entries = <<>> THEN <<>>
    ELSE InsertByName(sort_by_key(SubSeq(entries, 1, Len(entries) - 1)),
                      entries[Len(entries)])

\* Path::extension: what follows the last dot of the name, a dot in first
\* place not counting
extension(name) ==
    LET dots == {i \in 2..Len(name) : name[i] = "."}
    IN  IF dots = {} THEN NoneV
        ELSE LET last == CHOOSE i \in dots : \A j \in dots : j <= i
             IN  Some(SubSeq(name, last + 1, Len(name)))

JsonlExt == <<"j", "s", "o", "n", "l">>
NameMd == <<"n", ".", "m", "d">>

\* the orders in which read_dir can return the entries of a directory
Perms(S) ==
    {p \in [1..Cardinality(S) -> S] : \A i, j \in 1..Cardinality(S) : i # j => p[i] # p[j]}

\* what the read_dir calls of one discovery return: the entries of projects
\* in the order top, each with its children in some order
RECURSIVE Listings(_)
Listings(top) ==
    IF top = <<>> THEN {<<>>}
    ELSE { <<[name |-> Head(top).name, is_dir |-> Head(top).is_dir, files |-> fs]>> \o rest :
             fs \in Perms(Head(top).children), rest \in Listings(Tail(top)) }

\* discover_conversation_files: the .jsonl files of one project directory
ProjectFiles(project_entry) ==
    LET IsJsonl(f) == extension(f.name) = Some(JsonlExt)
        jsonl_files == sort_by_key(SelectSeq(project_entry.files, IsJsonl))
    IN  [i \in 1..Len(jsonl_files) |->
           [file |-> FileEntry(project_entry.name, jsonl_files[i].name),
            body |-> jsonl_files[i].body]]

RECURSIVE ConcatProjects(_)
ConcatProjects(project_dirs) ==
    IF project_dirs = <<>> THEN <<>>
    ELSE ProjectFiles(Head(project_dirs)) \o ConcatProjects(Tail(project_dirs))

\* utils::discover_conversation_files, given what read_dir returns
discover_conversation_files(base_path, listing) ==
    IF base_path.projects.kind # "dir" THEN <<>>
    ELSE LET IsDir(e) == e.is_dir
         IN  ConcatProjects(sort_by_key(SelectSeq(listing, IsDir)))

\* load_rows: the line loop of one opened file, from line n on
RECURSIVE ScanLines(_, _, _, _, _)
ScanLines(f, lines, n, rs, cwd) ==
    IF lines = <<>> THEN [rows |-> rs, file_cwd |-> cwd]
    ELSE LET l == Head(lines)
             n1 == NextFileLine(l, n)
             new == LineRows(l, f, extract_session_id_from_filename(f.file_name), n1)
         IN  ScanLines(f, Tail(lines), n1, PushRows(rs, new),
                       IF new # <<>> /\ DecodeOk(l) THEN AccumulateCwd(cwd, new[1]) ELSE cwd)

\* load_rows: the file loop over the discovered files, rs being the rows so far
RECURSIVE LoadFiles(_, _, _)
LoadFiles(fs, bodies, rs) ==
    IF fs = <<>> THEN rs
    ELSE IF ~Head(bodies).ok THEN LoadFiles(Tail(fs), Tail(bodies), rs)
    ELSE LET r == ScanLines(Head(fs), Head(bodies).lines, 0, rs, NoneV)
         IN  LoadFiles(Tail(fs), Tail(bodies),
                       Backfill(r.rows, Len(rs), r.file_cwd, Head(fs).project_dir))

\* ReadConversationsVTab::load_rows as one call: the discovered files and the rows
load_rows(base_path, listing) ==
    LET found == discover_conversation_files(base_path, listing)
        fs == [i \in 1..Len(found) |-> found[i].file]
        bodies == [i \in 1..Len(found) |-> found[i].body]
    IN  [files |-> fs, rows |-> LoadFiles(fs, bodies, <<>>)]

\* the names of a listing, in its order
ListingOrder(listing) ==
    [i \in 1..Len(listing) |->
       [name |-> listing[i].name,
        files |-> [j \in 1..Len(listing[i].files) |-> listing[i].files[j].name]]]

\* the bodies of the files of the trees
Bodies ==
    { AbsentFile,
      [ok |-> TRUE, lines |-> <<JsonLine("summary", NoneV)>>],
      [ok |-> TRUE, lines |-> <<JsonLine("user", Some(CwdW)), JsonLine("summary", NoneV)>>] }

\* a file of the given name with some body, or no such file
OptFile(name) == {{}} \cup { {[name |-> name, body |-> b]} : b \in Bodies }
\* a project directory of the given name and children, or no such directory
OptDir(name, childrenSets) ==
    {{}} \cup { {[name |-> name, is_dir |-> TRUE, children |-> ch]} : ch \in childrenSets }

\* the trees: projects missing, a plain file, or a directory that may hold
\* the project directory -a (agent-x.jsonl, s.jsonl), the project directory -b
\* (t.jsonl, n.md) and a plain file t.jsonl
TreeRoots ==
    { NoRoot, [NoRoot EXCEPT !.exists = TRUE],
      [NoRoot EXCEPT !.exists = TRUE, !.projects.kind = "file"] }
    \cup
    { [NoRoot EXCEPT !.exists = TRUE,
                     !.projects = [kind |-> "dir", entries |-> da \cup db \cup pf]] :
        da \in OptDir(DirA, {a \cup b : a \in OptFile(NameAgent), b \in OptFile(NameS)}),
        db \in OptDir(DirB, {a \cup b : a \in OptFile(NameT),
                                        b \in {{}, {[name |-> NameMd, body |-> AbsentFile]}}}),
        pf \in {{}, {[name |-> NameT, is_dir |-> FALSE, children |-> {}]}} }

\* the calls of the conversations table function on one root
ScanCalls == {1, 2}

InitDiscover ==
    /\ ScanIdle
    /\ PageIdle
    /\ root \in TreeRoots
    /\ source = NoneV
    /\ resolved = NoneV
    /\ scans = <<>>
    /\ hist = NoneV
    /\ first_pull = <<>>
    /\ discovered = NoneV
    /\ docs = <<>>

\* one call of ReadConversationsVTab::load_rows on root; the file system
\* returns the entries of each directory in some order
ScanConversations ==
    /\ Len(scans) < Cardinality(ScanCalls)
    /\ \E top \in Perms(root.projects.entries) :
         \E listing \in Listings(top) :
           LET r == load_rows(root, listing)
           IN  scans' = Append(scans, [order |-> ListingOrder(listing),
                                       files |-> r.files, rows |-> r.rows])
    /\ UNCHANGED <<scanvars, pagevars, root, source, resolved, hist, first_pull, discovered, docs>>

NextDiscover == ScanConversations

SpecDiscover == InitDiscover /\ [][NextDiscover]_vars

(***************************************************************************)
(* The discovery functions on their own: one call of                       *)
(* discover_conversation_files or of discover_copilot_event_files on a     *)
(* root, the entries of every directory coming in some read_dir order.     *)
(* A child of a project directory is a regular file or a directory; an     *)
(* entry of session-state is a directory, with or without events.jsonl in  *)
(* it, or a regular file.                                                  *)
(***************************************************************************)
EventsName == <<"e", "v", "e", "n", "t", "s">> \o JsonlSuffix
NameAB == <<"a", "-", "b">>
NameA == <<"a">>
NameC == <<"c">>
NameAJsonl == NameA \o JsonlSuffix

\* discover_copilot_event_files: the loop over the sorted entries
RECURSIVE CopilotEventFiles(_)
CopilotEventFiles(entries) ==
    IF entries = <<>> THEN <<>>
    ELSE LET entry == Head(entries)
             name == entry.name
             pushed ==
               IF entry.is_dir
               THEN IF entry.has_events
                    THEN <<[session_id |-> name, file_path |-> <<name, EventsName>>]>>
                    ELSE <<>>
               ELSE IF EndsWith(name, JsonlSuffix)
                    THEN <<[session_id |-> SubSeq(name, 1, Len(name) - Len(JsonlSuffix)),
                            file_path |-> <<name>>]>>
                    ELSE <<>>
         IN  pushed \o CopilotEventFiles(Tail(entries))

\* utils::discover_copilot_event_files, given what read_dir returns
discover_copilot_event_files(base_path, listing) ==
    IF base_path.session_state.kind # "dir" THEN <<>>
    ELSE CopilotEventFiles(sort_by_key(listing))

\* a child of a project directory
Child(name, is_dir) == [name |-> name, is_dir |-> is_dir, body |-> [ok |-> TRUE, lines |-> <<>>]]

\* the children of the project directory -a: any of agent-x.jsonl, s.jsonl,
\* n.md and a directory named t.jsonl
ChildrenA ==
    SUBSET { Child(NameAgent, FALSE), Child(NameS, FALSE), Child(NameMd, FALSE),
             Child(NameT, TRUE) }

\* the roots of the conversation discovery: projects missing, a plain file,
\* or a directory that may hold the project directories -a and -b (t.jsonl)
\* and a plain file t.jsonl
ConversationRoots ==
    { NoRoot, [NoRoot EXCEPT !.exists = TRUE],
      [NoRoot EXCEPT !.exists = TRUE, !.projects.kind = "file"] }
    \cup
    { [NoRoot EXCEPT !.exists = TRUE,
                     !.projects = [kind |-> "dir", entries |-> da \cup db \cup pf]] :
        da \in OptDir(DirA, ChildrenA),
        db \in OptDir(DirB, {{}, {Child(NameT, FALSE)}}),
        pf \in {{}, {[name |-> NameT, is_dir |-> FALSE, children |-> {}]}} }

\* an entry of session-state
SessionEntry(name, is_dir, has_events) ==
    [name |-> name, is_dir |-> is_dir, has_events |-> has_events]

\* the roots of the event-file discovery: session-state missing, a plain
\* file, or a directory that holds any of: the session directories a-b and a
\* (with events.jsonl), the session directory c (without), the flat files
\* a.jsonl and s.jsonl, and the file n.md
SessionRoots ==
    { [NoRoot EXCEPT !.exists = TRUE, !.session_state.kind = "file"] }
    \cup
    { [NoRoot EXCEPT !.exists = TRUE,
                     !.session_state = [kind |-> "dir", entries |-> es]] :
        es \in SUBSET { SessionEntry(NameAB, TRUE, TRUE), SessionEntry(NameA, TRUE, TRUE),
                        SessionEntry(NameC, TRUE, FALSE), SessionEntry(NameAJsonl, FALSE, FALSE),
                        SessionEntry(NameS, FALSE, FALSE), SessionEntry(NameMd, FALSE, FALSE) } }

InitFiles ==
    /\ ScanIdle
    /\ PageIdle
    /\ root \in ConversationRoots \cup SessionRoots
    /\ source = NoneV
    /\ resolved = NoneV
    /\ scans = <<>>
    /\ hist = NoneV
    /\ first_pull = <<>>
    /\ discovered = NoneV
    /\ docs = <<>>

\* a call of utils::discover_conversation_files(root)
DiscoverConversationFiles ==
    /\ discovered = NoneV
    /\ \E top \in Perms(root.projects.entries) :
         \E listing \in Listings(top) :
           LET r == discover_conversation_files(root, listing)
           IN  discovered' = Some([call |-> "conversation_files",
                                   order |-> ListingOrder(listing),
                                   entries |-> [i \in 1..Len(r) |-> r[i].file]])
    /\ UNCHANGED <<scanvars, pagevars, root, source, resolved, scans, hist, first_pull, docs>>

\* a call of utils::discover_copilot_event_files(root)
DiscoverCopilotEventFiles ==
    /\ discovered = NoneV
    /\ \E listing \in Perms(root.session_state.entries) :
         discovered' = Some([call |-> "copilot_event_files",
                             order |-> [i \in 1..Len(listing) |-> listing[i].name],
                             entries |-> discover_copilot_event_files(root, listing)])
    /\ UNCHANGED <<scanvars, pagevars, root, source, resolved, scans, hist, first_pull, docs>>

NextFiles == DiscoverConversationFiles \/ DiscoverCopilotEventFiles

SpecFiles == InitFiles /\ [][NextFiles]_vars

(***************************************************************************)
(* The batch cursor: VTab::bind, VTab::init and VTab::func of              *)
(* ReadConversationsVTab and GenericVTab (the same code twice).            *)
(* A row of the materialized list is named by its index in the list.       *)
(***************************************************************************)
Min(a, b) == IF a < b THEN a ELSE b

\* the row counts load_rows returns in the model: none, one, around one
\* page, exactly two pages, two pages and a part
RowCounts == {0, 1, PageSize - 1, PageSize, PageSize + 1, 2 * PageSize, 5000}
RowList(n) == [i \in 1..n |-> i]

\* a slip: the InitData is one static object, shared by all executions
InitDataStatic(cells) == 1

\* init: Ok(ConversationsInitData { .. }) is a new object for every call
NewInitData(cells) == Len(cells) + 1

\* a slip: rows.len() - offset - 1
BatchSizeOneShort(len, off) == Min(PageSize, len - off - 1)

\* func: let batch_size = std::cmp::min(2048, rows.len() - offset)
BatchSize(len, off) == Min(PageSize, len - off)

\* a slip: &rows[i] instead of &rows[offset + i]
ChunkRowsFromStart(rs, off, batch_size) == SubSeq(rs, 1, batch_size)

\* func: for i in 0..batch_size { let row = &rows[offset + i]; .. }
ChunkRows(rs, off, batch_size) == SubSeq(rs, off + 1, off + batch_size)

\* a slip: store(batch_size)
AdvancedOffsetForgettingBase(off, batch_size) == batch_size

\* func: init_data.offset.store(offset + batch_size, Ordering::Relaxed)
AdvancedOffset(off, batch_size) == off + batch_size

InitPage ==
    /\ files = <<>>
    /\ disk = <<>>
    /\ pc = "done"
    /\ file_line = 0
    /\ file_rows_start = 0
    /\ file_cwd = NoneV
    /\ rows = <<>>
    /\ PageIdle
    /\ RootIdle

\* VTab::bind: rows = load_rows(path), kept in a new BindData
Bind(q) ==
    /\ qstate[q] = "new"
    /\ \E n \in RowCounts : bind_rows' = [bind_rows EXCEPT ![q] = RowList(n)]
    /\ qstate' = [qstate EXCEPT ![q] = "bound"]
    /\ UNCHANGED <<scanvars, rootvars, mutex, init_data, offset, tq, tpc, t_offset, output,
                   page_sizes, delivered>>

\* VTab::init: a new InitData with offset 0
InitCursor(q) ==
    /\ qstate[q] = "bound"
    /\ LET c == NewInitData(offset)
       IN  /\ offset' = IF c > Len(offset) THEN Append(offset, 0)
                        ELSE [offset EXCEPT ![c] = 0]
           /\ init_data' = [init_data EXCEPT ![q] = c]
    /\ qstate' = [qstate EXCEPT ![q] = "ready"]
    /\ UNCHANGED <<scanvars, rootvars, bind_rows, mutex, tq, tpc, t_offset, output,
                   page_sizes, delivered>>

\* a slip: the rows are read without taking the lock
CanLockAlways(holder) == TRUE

\* func: bind_data.rows.lock() returns once no thread holds the guard
CanLock(holder) == holder = 0

\* VTab::func, first part: bind_data.rows.lock(), then offset.load
FuncEnter(t) ==
    LET q == tq[t]
    IN  /\ tpc[t] = "idle"
        /\ qstate[q] = "ready"
        /\ Len(page_sizes[q]) < MaxPulls
        /\ CanLock(mutex[q])
        /\ mutex' = [mutex EXCEPT ![q] = t]
        /\ t_offset' = [t_offset EXCEPT ![t] = offset[init_data[q]]]
        /\ tpc' = [tpc EXCEPT ![t] = "entered"]
        /\ UNCHANGED <<scanvars, rootvars, qstate, bind_rows, init_data, offset, tq, output,
                       page_sizes, delivered>>

\* VTab::func, second part: the end-of-stream return, or the chunk is filled
\* and the offset stored; the lock guard is dropped on both returns
FuncReturn(t) ==
    LET q == tq[t]
        rs == bind_rows[q]
        off == t_offset[t]
    IN  /\ tpc[t] = "entered"
        /\ IF off >= Len(rs)
           THEN /\ output' = [output EXCEPT ![t] = <<>>]
                /\ page_sizes' = [page_sizes EXCEPT ![q] = Append(@, 0)]
                /\ UNCHANGED <<offset, delivered>>
           ELSE LET batch_size == BatchSize(Len(rs), off)
                    chunk == ChunkRows(rs, off, batch_size)
                IN  /\ output' = [output EXCEPT ![t] = chunk]
                    /\ offset' = [offset EXCEPT
                                    ![init_data[q]] = AdvancedOffset(off, batch_size)]
                    /\ page_sizes' = [page_sizes EXCEPT ![q] = Append(@, Len(chunk))]
                    /\ delivered' = [delivered EXCEPT ![q] = @ \o chunk]
        /\ mutex' = [mutex EXCEPT ![q] = 0]
        /\ tpc' = [tpc EXCEPT ![t] = "idle"]
        /\ UNCHANGED <<scanvars, rootvars, qstate, bind_rows, init_data, tq, t_offset>>

NextPage ==
    \/ \E q \in Queries : Bind(q) \/ InitCursor(q)
    \/ \E t \in Threads : FuncEnter(t) \/ FuncReturn(t)

SpecPage == InitPage /\ [][NextPage]_vars

(***************************************************************************)
(* One cursor pulled by several threads: the scheduler hands the same      *)
(* BindData and InitData to every thread that runs func for the query.     *)
(***************************************************************************)
SharedQuery == 1

InitShared ==
    /\ ScanIdle
    /\ RootIdle
    /\ qstate = [q \in Queries |-> "new"]
    /\ bind_rows = [q \in Queries |-> <<>>]
    /\ mutex = [q \in Queries |-> 0]
    /\ init_data = [q \in Queries |-> 0]
    /\ offset = <<>>
    /\ tq = [t \in Threads |-> SharedQuery]
    /\ tpc = [t \in Threads |-> "idle"]
    /\ t_offset = [t \in Threads |-> 0]
    /\ output = [t \in Threads |-> <<>>]
    /\ page_sizes = [q \in Queries |-> <<>>]
    /\ delivered = [q \in Queries |-> <<>>]

SpecShared == InitShared /\ [][NextPage]_vars

(***************************************************************************)
(* The history table (src/src/history.rs) and the scans of a root that     *)
(* lacks what they read.  history.jsonl holds lines (kind, display);       *)
(* command-history-state.json holds one JSON document (kind, commands),    *)
(* kept as the one element of the lines of its body.                       *)
(***************************************************************************)
HLine(kind, display) == [kind |-> kind, display |-> display]
HDoc(kind, commands) == [kind |-> kind, commands |-> commands]
HistoryRow(src, line_number, display) ==
    [source |-> src, line_number |-> line_number, display |-> display]

\* History::load_claude_rows: lines().enumerate().filter_map(...), from line idx on
RECURSIVE ClaudeHistoryRows(_, _)
ClaudeHistoryRows(lines, idx) ==
    IF lines = <<>> THEN <<>>
    ELSE LET l == Head(lines)
             rest == ClaudeHistoryRows(Tail(lines), idx + 1)
         IN  IF ~LineReadOk(l) THEN rest
             ELSE IF LineIsBlank(l) THEN rest
             ELSE IF l.kind = "json"
             THEN <<HistoryRow("claude", idx, l.display)>> \o rest
             ELSE <<HistoryRow("claude", idx, Some(<<"Parse error: ", DecodeError(l)>>))>>
                  \o rest

\* History::load_claude_rows
load_claude_rows(base_path) ==
    IF ~base_path.history.ok THEN <<>>
    ELSE ClaudeHistoryRows(base_path.history.lines, 1)

\* History::load_copilot_rows
load_copilot_rows(base_path) ==
    IF ~base_path.command_history.ok THEN <<>>
    ELSE IF base_path.command_history.lines = <<>> THEN <<>>
    ELSE LET doc == base_path.command_history.lines[1]
         IN  IF doc.kind # "json" THEN <<>>
             ELSE [i \in 1..Len(doc.commands) |->
                     HistoryRow("copilot", i, Some(doc.commands[i]))]

\* a slip: the unknown provider is read as provider A
history_load_rows_unknown_as_claude(base_path, src) ==
    IF resolve_provider(base_path, src) = "Copilot" THEN load_copilot_rows(base_path)
    ELSE load_claude_rows(base_path)

\* History::load_rows
history_load_rows(base_path, src) ==
    LET provider == resolve_provider(base_path, src)
    IN  IF provider = "Claude" THEN load_claude_rows(base_path)
        ELSE IF provider = "Copilot" THEN load_copilot_rows(base_path)
        ELSE <<>>

\* VTab::func on a cursor at offset 0: the length of the chunk
FirstChunkLen(rs) ==
    IF 0 >= Len(rs) THEN 0 ELSE BatchSize(Len(rs), 0)

\* the roots of the scans: with and without projects, session-state,
\* history.jsonl and command-history-state.json
StructureRoots ==
    {NoRoot} \cup
    { [exists |-> TRUE, projects |-> p, session_state |-> ss, history |-> h,
       command_history |-> k] :
        p \in { AbsentDir, [kind |-> "file", entries |-> {}], [kind |-> "dir", entries |-> {}],
                [kind |-> "dir",
                 entries |-> {[name |-> DirA, is_dir |-> TRUE,
                               children |-> {[name |-> NameS,
                                              body |-> [ok |-> TRUE,
                                                        lines |-> <<JsonLine("summary", NoneV)>>]]}]}] },
        ss \in { AbsentDir, [kind |-> "dir", entries |-> {}] },
        h \in { AbsentFile, [ok |-> TRUE, lines |-> <<>>],
                [ok |-> TRUE, lines |-> <<HLine("json", Some(TextH))>>],
                [ok |-> TRUE, lines |-> <<HLine("garbage", NoneV), HLine("json", NoneV)>>] },
        k \in { AbsentFile, [ok |-> TRUE, lines |-> <<HDoc("garbage", <<>>)>>],
                [ok |-> TRUE, lines |-> <<HDoc("json", <<TextT>>)>>] } }

\* the hints of the history calls
StructureHints ==
    { NoneV, Some(ClaudeName), Some(<<"C", "o", "p", "i", "l", "o", "t">>),
      Some(<<"g", "p", "t">>) }

InitStructure ==
    /\ ScanIdle
    /\ PageIdle
    /\ root \in StructureRoots
    /\ source \in StructureHints
    /\ resolved = NoneV
    /\ scans = <<>>
    /\ hist = NoneV
    /\ first_pull = <<>>
    /\ discovered = NoneV
    /\ docs = <<>>

\* GenericVTab<History>::bind: rows = History::load_rows(path, source), Ok(BindData)
LoadHistory ==
    /\ hist = NoneV
    /\ hist' = Some([result |-> "Ok", rows |-> history_load_rows(root, source)])
    /\ UNCHANGED <<scanvars, pagevars, root, source, resolved, scans, first_pull, discovered, docs>>

\* the first func call on the rows of a table function that has been bound
PullFirst(table) ==
    /\ \A i \in 1..Len(first_pull) : first_pull[i].table # table
    /\ \/ /\ table = "conversations"
          /\ scans # <<>>
          /\ first_pull' = Append(first_pull,
                 [table |-> table, len |-> FirstChunkLen(scans[1].rows)])
       \/ /\ table = "history"
          /\ IsSome(hist)
          /\ first_pull' = Append(first_pull,
                 [table |-> table, len |-> FirstChunkLen(hist.v.rows)])
    /\ UNCHANGED <<scanvars, pagevars, root, source, resolved, scans, hist, discovered, docs>>

NextStructure ==
    \/ ScanConversations
    \/ LoadHistory
    \/ \E table \in {"conversations", "history"} : PullFirst(table)

SpecStructure == InitStructure /\ [][NextStructure]_vars

(***************************************************************************)
(* The loaders of the files that hold one JSON document: the todo lists    *)
(* (a JSON array each), the stats cache (a JSON object) and the command    *)
(* history of provider B (a JSON object).  A file is unreadable, or its    *)
(* text is garbage (serde_json::from_str fails), or it decodes.            *)
(***************************************************************************)
\* loads of whole-document files in one behaviour
MaxDocLoads == 2

\* the serde_json error text of a document that does not decode
DocDecodeError == "expected value at line 1 column 1"

UnreadableDoc == [ok |-> FALSE, kind |-> "garbage", value |-> <<>>]
GarbageDoc == [ok |-> TRUE, kind |-> "garbage", value |-> <<>>]
JsonDoc(value) == [ok |-> TRUE, kind |-> "json", value |-> value]

\* types::TodoItem
TodoItem(content, status, active_form) ==
    [content |-> content, status |-> status, active_form |-> active_form]
TodoItems ==
    { <<>>,
      <<TodoItem(Some(TextH), Some("pending"), Some(TextT)), TodoItem(NoneV, NoneV, NoneV)>> }
TodoDocs == { UnreadableDoc, GarbageDoc } \cup { JsonDoc(items) : items \in TodoItems }

\* an entry of discover_todo_files, with what the file holds
TodoFile(session_id, agent_id, file_name, doc) ==
    [session_id |-> session_id, agent_id |-> agent_id, file_name |-> file_name, doc |-> doc]
\* what discovery returns for a todos directory of no, one or two files
TodoFileLists ==
    {<<>>}
    \cup { <<TodoFile("s1", "x", "s1-agent-x.json", d)>> : d \in TodoDocs }
    \cup { <<TodoFile("s1", "x", "s1-agent-x.json", d), TodoFile("s2", "y", "s2-agent-y.json", e)>> :
             d \in TodoDocs, e \in TodoDocs }

TodoRow(session_id, agent_id, file_name, item_index, content, status, active_form) ==
    [session_id |-> session_id, agent_id |-> agent_id, file_name |-> file_name,
     item_index |-> item_index, content |-> content, status |-> status,
     active_form |-> active_form]

\* ReadTodosVTab::load_rows: the loop over the discovered files
RECURSIVE todos_load_rows(_)
todos_load_rows(fs) ==
    IF fs = <<>> THEN <<>>
    ELSE LET f == Head(fs)
             rest == todos_load_rows(Tail(fs))
         IN  IF ~f.doc.ok THEN rest
             ELSE IF f.doc.kind # "json"
             THEN <<TodoRow(f.session_id, f.agent_id, f.file_name, -1,
                            <<"Parse error: ", DocDecodeError>>, "_parse_error", NoneV)>>
                  \o rest
             ELSE [i \in 1..Len(f.doc.value) |->
                     TodoRow(f.session_id, f.agent_id, f.file_name, i - 1,
                             UnwrapOr(f.doc.value[i].content, EmptyStr),
                             UnwrapOr(f.doc.value[i].status, ""),
                             f.doc.value[i].active_form)]
                  \o rest

\* types::DailyStats
DailyStats(date, message_count, session_count, tool_call_count) ==
    [date |-> date, message_count |-> message_count, session_count |-> session_count,
     tool_call_count |-> tool_call_count]
DateD == <<"d">>
\* types::StatsCache: the value of dailyActivity
StatsCaches ==
    { NoneV,
      Some(<<DailyStats(Some(DateD), Some(3), Some(1), Some(2)),
             DailyStats(NoneV, NoneV, NoneV, NoneV)>>) }
StatsDocs == { UnreadableDoc, GarbageDoc } \cup { JsonDoc(c) : c \in StatsCaches }

\* Stats::load_rows, given what stats-cache.json holds
stats_load_rows(doc) ==
    IF ~doc.ok THEN <<>>
    ELSE IF doc.kind # "json" THEN <<>>
    ELSE LET days == UnwrapOr(doc.value, <<>>)
         IN  [i \in 1..Len(days) |->
                [date |-> UnwrapOr(days[i].date, EmptyStr),
                 message_count |-> UnwrapOr(days[i].message_count, 0),
                 session_count |-> UnwrapOr(days[i].session_count, 0),
                 tool_call_count |-> UnwrapOr(days[i].tool_call_count, 0)]]

\* what command-history-state.json holds
CommandHistoryFiles ==
    { AbsentFile, [ok |-> TRUE, lines |-> <<HDoc("garbage", <<>>)>>],
      [ok |-> TRUE, lines |-> <<HDoc("json", <<TextH, TextT>>)>>] }

InitDocs ==
    /\ ScanIdle
    /\ PageIdle
    /\ RootIdle

\* a call of ReadTodosVTab::load_rows
LoadTodos ==
    /\ Len(docs) < MaxDocLoads
    /\ \E fs \in TodoFileLists :
         docs' = Append(docs, [table |-> "todos", input |-> fs, rows |-> todos_load_rows(fs)])
    /\ UNCHANGED <<scanvars, pagevars, root, source, resolved, scans, hist, first_pull, discovered>>

\* a call of Stats::load_rows
LoadStats ==
    /\ Len(docs) < MaxDocLoads
    /\ \E d \in StatsDocs :
         docs' = Append(docs, [table |-> "stats", input |-> d, rows |-> stats_load_rows(d)])
    /\ UNCHANGED <<scanvars, pagevars, root, source, resolved, scans, hist, first_pull, discovered>>

\* a call of History::load_copilot_rows
LoadCommandHistory ==
    /\ Len(docs) < MaxDocLoads
    /\ \E f \in CommandHistoryFiles :
         docs' = Append(docs,
                    [table |-> "history", input |-> f,
                     rows |-> load_copilot_rows([NoRoot EXCEPT !.exists = TRUE,
                                                               !.command_history = f])])
    /\ UNCHANGED <<scanvars, pagevars, root, source, resolved, scans, hist, first_pull, discovered>>

NextDocs == LoadTodos \/ LoadStats \/ LoadCommandHistory

SpecDocs == InitDocs /\ [][NextDocs]_vars

(***************************************************************************)
(* Vocabulary of the properties of the scan                                *)
(***************************************************************************)
\* files[i] has been processed: skipped, or read to its end and backfilled
Finished(i) == i < fileIdx \/ (i = fileIdx /\ pc # "lines")
FinishedFiles == {i \in 1..Len(disk) : Finished(i)}

\* position in the discovery list of the file a row came from (0: none)
FileIndexOf(r) ==
    LET I == {i \in 1..Len(files) :
                files[i].project_dir = r.project_dir /\ files[i].file_name = r.file_name}
    IN  IF I = {} THEN 0 ELSE CHOOSE i \in I : TRUE

RowsOfFile(i) == SelectSeq(rows, LAMBDA r : FileIndexOf(r) = i)

Positions(lines, Keep(_)) == {p \in 1..Len(lines) : Keep(lines[p])}
NonBlank(l) == ~LineIsBlank(l)
Emitting(l) == LineReadOk(l) /\ ~LineIsBlank(l)
Malformed(l) == Emitting(l) /\ ~DecodeOk(l)
Valid(l) == Emitting(l) /\ DecodeOk(l)
DeclaresCwd(l) == Valid(l) /\ l.tag \in BaseTags /\ IsSome(l.cwd)
DeclaresNonEmptyCwd(l) == DeclaresCwd(l) /\ l.cwd.v # EmptyStr

\* the p-th smallest element of a set of positions
RECURSIVE Sorted(_)
Sorted(P) ==
    IF P = {} THEN <<>>
    ELSE LET m == CHOOSE x \in P : \A y \in P : x <= y
         IN  <<m>> \o Sorted(P \ {m})

Fallback(i) == decode_project_path(files[i].project_dir)

\* C1 (as claimed): the rows a processed file emitted are as many as its
\* non-blank physical lines, whatever the kinds of its lines.
C1_RowsEqualNonBlankLines ==
    \A i \in FinishedFiles :
        disk[i].ok => Len(RowsOfFile(i)) = Cardinality(Positions(disk[i].lines, NonBlank))

\* C2: a processed file made of N valid lines and one malformed line, at any
\* position, has N + 1 rows; the k-th row carries line number k; the row of
\* the malformed line, and only it, has type _parse_error, and its content is
\* the parse error text; the other rows have the type of their record.
C2_MalformedLineContained ==
    \A i \in FinishedFiles :
        LET ls == disk[i].lines
            rs == RowsOfFile(i)
        IN  (/\ Cardinality(Positions(ls, Malformed)) = 1
             /\ Cardinality(Positions(ls, Valid)) = Len(ls) - 1)
            => /\ Len(rs) = Len(ls)
               /\ \A k \in 1..Len(ls) :
                    /\ rs[k].line_number = k
                    /\ IF Malformed(ls[k])
                       THEN /\ rs[k].message_type = "_parse_error"
                            /\ rs[k].message_content
                                 = Some(<<"Parse error: ", DecodeError(ls[k])>>)
                       ELSE /\ rs[k].message_type = ls[k].tag
                            /\ rs[k].message_type # "_parse_error"

\* C2 witness: a processed file with a malformed line between two valid ones
C2_Witness ==
    \E i \in FinishedFiles :
        LET ls == disk[i].lines
        IN  /\ Len(ls) = 3
            /\ Valid(ls[1]) /\ Malformed(ls[2]) /\ Valid(ls[3])
            /\ Len(RowsOfFile(i)) = 3
            /\ RowsOfFile(i)[2].message_type = "_parse_error"

\* C3 (as claimed): in a processed file where some record declares a
\* non-empty working directory, no row has the provisional fallback as its
\* project path.
C3_NoFallbackLeft ==
    \A i \in FinishedFiles :
        Positions(disk[i].lines, DeclaresNonEmptyCwd) # {}
        => \A k \in 1..Len(RowsOfFile(i)) : RowsOfFile(i)[k].project_path # Fallback(i)

\* the first working directory a file declares, in line order
FirstDeclared(ls) ==
    LET P == Positions(ls, DeclaresCwd)
    IN  IF P = {} THEN NoneV ELSE ls[Sorted(P)[1]].cwd

\* C3 (amended): in a processed file where some record declares a non-empty
\* working directory, no row has the provisional fallback as its project
\* path, unless the first working directory the file declares is the
\* fallback itself.
C3_NoFallbackLeftUnlessDeclared ==
    \A i \in FinishedFiles :
        (/\ Positions(disk[i].lines, DeclaresNonEmptyCwd) # {}
         /\ FirstDeclared(disk[i].lines) # Some(Fallback(i)))
        => \A k \in 1..Len(RowsOfFile(i)) : RowsOfFile(i)[k].project_path # Fallback(i)

\* C3 witness: a processed file whose first row declared nothing, a later
\* record declared a working directory other than the fallback, and the
\* first row now carries it
C3_Witness ==
    \E i \in FinishedFiles :
        LET ls == disk[i].lines
            rs == RowsOfFile(i)
        IN  /\ Len(ls) >= 2 /\ Len(rs) >= 2
            /\ Valid(ls[1]) /\ ~DeclaresCwd(ls[1])
            /\ DeclaresNonEmptyCwd(ls[2]) /\ ls[2].cwd.v # Fallback(i)
            /\ rs[1].project_path = ls[2].cwd.v

\* the first non-empty working directory a file declares, in line order
FirstNonEmptyDeclared(ls) ==
    LET P == Positions(ls, DeclaresNonEmptyCwd)
    IN  IF P = {} THEN NoneV ELSE ls[Sorted(P)[1]].cwd

\* C4 (as claimed): in a processed file, every row whose record declared no
\* working directory carries the first non-empty working directory declared
\* in the file, whatever empty declaration precedes it and whatever other
\* declaration follows it.
C4_FirstNonEmptyWins ==
    \A i \in FinishedFiles :
        LET first == FirstNonEmptyDeclared(disk[i].lines)
            rs == RowsOfFile(i)
        IN  IsSome(first)
            => \A k \in 1..Len(rs) :
                 (rs[k].message_type # "_parse_error" /\ IsNone(rs[k].cwd))
                 => rs[k].project_path = first.v

\* C5: rows are ordered by (position of their file in the discovery list,
\* line number), strictly; and the backfill pass of a file keeps the number
\* of rows and the file and line of the row at every index.
RowOrder ==
    \A j, k \in 1..Len(rows) :
        j < k =>
          \/ FileIndexOf(rows[j]) < FileIndexOf(rows[k])
          \/ /\ FileIndexOf(rows[j]) = FileIndexOf(rows[k])
             /\ rows[j].line_number < rows[k].line_number
RowsFromFiles == \A k \in 1..Len(rows) : FileIndexOf(rows[k]) \in 1..fileIdx
BackfillKeepsPlaces ==
    (pc = "lines" /\ pc' = "open")
    => /\ Len(rows') = Len(rows)
       /\ \A k \in 1..Len(rows) :
            /\ rows'[k].project_dir = rows[k].project_dir
            /\ rows'[k].file_name = rows[k].file_name
            /\ rows'[k].line_number = rows[k].line_number
C5_RowOrder == [](RowOrder /\ RowsFromFiles) /\ [][BackfillKeepsPlaces]_vars

\* C5 witness: the scan is over with rows of two files, two of them of one file
C5_Witness ==
    /\ pc = "done"
    /\ Len(rows) >= 3
    /\ FileIndexOf(rows[1]) = 1
    /\ FileIndexOf(rows[2]) = 1
    /\ FileIndexOf(rows[Len(rows)]) = 2

\* C6: the line numbers of the rows of a file are, in row order, the
\* positions among all its physical lines of the lines that emitted a row
\* (blank and unreadable lines emit none and are counted).
C6_LineNumbersCountAllLines ==
    \A i \in 1..Len(disk) :
        LET rs == RowsOfFile(i)
        IN  [k \in 1..Len(rs) |-> rs[k].line_number]
              = Sorted(Positions(disk[i].lines, Emitting))

\* C6 witness: a row that follows two blank lines carries line number 3
C6_Witness ==
    \E i \in 1..Len(disk) :
        /\ Len(disk[i].lines) >= 3
        /\ LineIsBlank(disk[i].lines[1]) /\ LineIsBlank(disk[i].lines[2])
        /\ Len(RowsOfFile(i)) >= 1
        /\ RowsOfFile(i)[1].line_number = 3

(***************************************************************************)
(* Vocabulary of the properties of the batch cursor                        *)
(***************************************************************************)
\* the offset of the cursor of query execution q
OffsetOf(q) == offset[init_data[q]]
Pulls(q) == Len(page_sizes[q])
\* ceil(n / 2048)
PagesOf(n) == (n + 2047) \div 2048
IsPrefix(s, t) == Len(s) <= Len(t) /\ s = SubSeq(t, 1, Len(s))
\* thread t returns from func in this step
Returns(t) == tpc[t] = "entered" /\ tpc'[t] = "idle"

\* C7: a func over n rows with the cursor at offset o returns the
\* min(2048, n - o) rows o+1 .. o+size of the list, in order, and advances the
\* offset by their number; at o = n it returns no row and the offset stays.
PullContract ==
    \A t \in Threads :
        Returns(t) =>
          LET q == tq[t]
              n == Len(bind_rows[q])
              o == OffsetOf(q)
              size == IF n - o < 2048 THEN n - o ELSE 2048
          IN  /\ output'[t] = [i \in 1..size |-> bind_rows[q][o + i]]
              /\ page_sizes'[q] = Append(page_sizes[q], size)
              /\ OffsetOf(q)' = o + size
              /\ (o = n => size = 0 /\ OffsetOf(q)' = o)
\* ... and a fresh cursor over 5000 rows yields pages of 2048, 2048, 904, 0 rows
PagesOf5000 ==
    \A q \in Queries :
        Len(bind_rows[q]) = 5000
        => IsPrefix(page_sizes[q], <<2048, 2048, 904, 0>>)
             \/ IsPrefix(<<2048, 2048, 904, 0>>, page_sizes[q])
C7_PullContract == []PagesOf5000 /\ [][PullContract]_vars

\* C7 witness: a cursor over 5000 rows has returned its four pages
C7_Witness ==
    \E q \in Queries :
        /\ Len(bind_rows[q]) = 5000
        /\ page_sizes[q] = <<2048, 2048, 904, 0>>
        /\ OffsetOf(q) = 5000

\* C8 (as claimed): a fresh cursor over 5000 rows has offset 4904 after its
\* third pull.
C8_Offset4904AfterThirdPull ==
    \A q \in Queries :
        (Len(bind_rows[q]) = 5000 /\ Pulls(q) = 3) => OffsetOf(q) = 4904

\* C8 (amended): a fresh cursor over 5000 rows has offset 5000 after its
\* third pull (2048 after the first, 4096 after the second).
C8_Offset5000AfterThirdPull ==
    \A q \in Queries :
        Len(bind_rows[q]) = 5000 =>
          /\ Pulls(q) = 1 => OffsetOf(q) = 2048
          /\ Pulls(q) = 2 => OffsetOf(q) = 4096
          /\ Pulls(q) = 3 => OffsetOf(q) = 5000

\* C8 witness: the third pull of a cursor over 5000 rows has returned
C8_Witness ==
    \E q \in Queries :
        /\ Len(bind_rows[q]) = 5000
        /\ page_sizes[q] = <<2048, 2048, 904>>
        /\ \A t \in Threads : tq[t] = q => tpc[t] = "idle"

\* C9: for every row count n, the k-th page of a fresh cursor is empty
\* exactly when k > ceil(n / 2048), and the pages returned so far,
\* concatenated, are the first min(n, 2048 * pulls) rows of the list: at
\* the first empty page every row has been delivered once, in list order.
C9_PaginationComplete ==
    \A q \in Queries :
        LET n == Len(bind_rows[q])
        IN  /\ \A k \in 1..Pulls(q) : (page_sizes[q][k] = 0) <=> (k > PagesOf(n))
            /\ delivered[q]
                 = SubSeq(bind_rows[q], 1,
                          IF n < 2048 * Pulls(q) THEN n ELSE 2048 * Pulls(q))
            /\ (Pulls(q) > PagesOf(n) => delivered[q] = bind_rows[q])

\* C9 witness: a cursor over exactly two pages of rows has returned two full
\* pages and then the empty one
C9_Witness ==
    \E q \in Queries :
        /\ Len(bind_rows[q]) = 4096
        /\ page_sizes[q] = <<2048, 2048, 0>>
        /\ delivered[q] = bind_rows[q]

\* C10: every query execution has its own row buffer and its own offset: a
\* step of a func on one execution leaves the rows, the offset and the
\* delivered rows of the other as they are, two executions that are ready
\* have distinct InitData objects, and under every interleaving each
\* execution is delivered a prefix of its own row list, all of it by its
\* first empty page.
PullsIsolated ==
    \A t \in Threads :
        tpc'[t] # tpc[t] =>
          \A r \in Queries \ {tq[t]} :
              /\ bind_rows'[r] = bind_rows[r]
              /\ delivered'[r] = delivered[r]
              /\ init_data[r] # 0 => OffsetOf(r)' = OffsetOf(r)
OwnCursor ==
    \A q, r \in Queries :
        (q # r /\ qstate[q] = "ready" /\ qstate[r] = "ready")
        => init_data[q] # init_data[r]
OwnRows ==
    \A q \in Queries :
        /\ IsPrefix(delivered[q], bind_rows[q])
        /\ (Pulls(q) > 0 /\ page_sizes[q][Pulls(q)] = 0) => delivered[q] = bind_rows[q]
C10_QueriesIsolated == [](OwnCursor /\ OwnRows) /\ [][PullsIsolated]_vars

\* C10 witness: two executions over different row lists, one inside func
\* while the other has pages returned, both delivered in full at the end
C10_Witness ==
    /\ Len(bind_rows[1]) = 5000
    /\ Len(bind_rows[2]) = 2049
    /\ tpc[1] = "entered"
    /\ Pulls(1) = 3
    /\ Pulls(2) = 3
    /\ delivered[1] = bind_rows[1]
    /\ delivered[2] = bind_rows[2]

(***************************************************************************)
(* Claims about the projection of one record (SpecRow).                    *)
(***************************************************************************)
\* the one line of the one file has been read
HasRecord == disk # <<>> /\ disk[1].lines # <<>>
\* the record read, and the row emitted for it
Rec == disk[1].lines[1]
TheRow == rows[1]
\* the value of the content field of a user, assistant or system record
RecContent ==
    IF Rec.tag = "system" THEN Rec.content
    ELSE IF IsSome(Rec.message) THEN Rec.message.v.content ELSE NoneV
\* the blocks of the content array of the record (none when it has no array)
RecBlocks ==
    IF IsSome(RecContent) /\ RecContent.v.t = "array" THEN RecContent.v.items ELSE <<>>
\* the file's base name minus the .jsonl extension
BaseName == SubSeq(files[1].file_name, 1, Len(files[1].file_name) - Len(JsonlSuffix))

\* C12: a record that is well-formed JSON with a type tag outside the
\* recognized message types yields one row whose message type is "unknown".
C12_UnknownTagYieldsUnknown ==
    (HasRecord /\ Rec.kind = "json" /\ Rec.tag # "" /\ Rec.tag \notin MessageTags)
        => (Len(rows) = 1 /\ TheRow.message_type = "unknown")

\* C13: the row of an assistant message takes tool name, tool call id and
\* tool input from the first tool-invocation block in block order, each as
\* that block has it (absent stays null); without such a block all three
\* are null.
C13_FirstToolUseWins ==
    (HasRecord /\ rows # <<>> /\ TheRow.message_type = "assistant") =>
        LET tools == {i \in 1..Len(RecBlocks) : RecBlocks[i].type = Some("tool_use")}
        IN  IF tools = {}
            THEN /\ TheRow.tool_name = NoneV
                 /\ TheRow.tool_use_id = NoneV
                 /\ TheRow.tool_input = NoneV
            ELSE LET first == CHOOSE i \in tools : \A j \in tools : i <= j
                     b == RecBlocks[first]
                 IN  /\ TheRow.tool_name = b.name
                     /\ TheRow.tool_use_id = b.id
                     /\ TheRow.tool_input =
                          (IF IsSome(b.input) THEN Some(ValueToString(b.input.v)) ELSE NoneV)

\* a tool block without a name comes first, a complete one second: the row's
\* tool name is null, its id and input are the first block's
C13_Witness ==
    /\ pc = "done"
    /\ HasRecord
    /\ Rec.tag = "assistant"
    /\ RecBlocks = <<ToolUseNoName, ToolUseFull>>
    /\ TheRow.message_type = "assistant"
    /\ TheRow.tool_name = NoneV
    /\ TheRow.tool_use_id = Some(IdB)
    /\ TheRow.tool_input = Some(<<Quote, "t", Quote>>)

\* C14: a user, assistant or system record whose content is a plain string
\* yields a row of that kind whose message content is that string.
C14_StringContentVerbatim ==
    (HasRecord /\ Rec.tag \in BaseTags /\ IsSome(RecContent) /\ RecContent.v.t = "string")
        => /\ Len(rows) = 1
           /\ TheRow.message_type = Rec.tag
           /\ TheRow.message_content = Some(RecContent.v.s)

\* C15: a user, assistant or system record whose content is an array of
\* blocks yields a row of that kind whose message content is the texts of the
\* blocks that carry a text attribute, whatever their type, joined with
\* newlines in array order.
C15_ArrayContentJoinsTexts ==
    (HasRecord /\ Rec.tag \in BaseTags /\ IsSome(RecContent) /\ RecContent.v.t = "array")
        => LET carrying == SelectSeq(RecBlocks, HasTextStr)
               texts == [i \in 1..Len(carrying) |-> carrying[i].text.v.s]
           IN  /\ Len(rows) = 1
               /\ TheRow.message_type = Rec.tag
               /\ TheRow.message_content = Some(JoinLines(texts))

\* the usage field of the record, null when the field, the usage object or
\* the message is absent
RecUsageField(field) ==
    IF IsSome(Rec.message) /\ IsSome(Rec.message.v.usage)
    THEN Rec.message.v.usage.v[field]
    ELSE NoneV

\* C16: the four token counts of an assistant row equal the usage fields of
\* the record, null where the field, the usage object or the message is
\* absent (never 0 for an absent one); the rows of the other kinds have all
\* four null.
C16_TokensPassThrough ==
    (HasRecord /\ rows # <<>>) =>
        IF TheRow.message_type = "assistant"
        THEN /\ TheRow.input_tokens = RecUsageField("input_tokens")
             /\ TheRow.output_tokens = RecUsageField("output_tokens")
             /\ TheRow.cache_creation_tokens = RecUsageField("cache_creation_input_tokens")
             /\ TheRow.cache_read_tokens = RecUsageField("cache_read_input_tokens")
        ELSE /\ TheRow.input_tokens = NoneV
             /\ TheRow.output_tokens = NoneV
             /\ TheRow.cache_creation_tokens = NoneV
             /\ TheRow.cache_read_tokens = NoneV

\* an assistant row of a usage object with a present 0 and absent fields
C16_Witness ==
    /\ pc = "done"
    /\ HasRecord
    /\ TheRow.message_type = "assistant"
    /\ IsSome(Rec.message)
    /\ Rec.message.v.usage = Some(UsageInfo(Some(0), NoneV, Some(5), NoneV))
    /\ TheRow.input_tokens = Some(0)
    /\ TheRow.output_tokens = NoneV
    /\ TheRow.cache_creation_tokens = Some(5)
    /\ TheRow.cache_read_tokens = NoneV

\* C17: for a record of any variant, the row's session id is the session id
\* the record embeds, and the file's base name minus .jsonl when it embeds
\* none.
C17_SessionIdResolution ==
    (HasRecord /\ Rec.kind = "json" /\ Rec.tag \in MessageTags)
        => /\ Len(rows) = 1
           /\ TheRow.session_id =
                (IF IsSome(Rec.sessionId) THEN Rec.sessionId.v ELSE BaseName)

(***************************************************************************)
(* Claims about the provider resolver (SpecResolve).                       *)
(***************************************************************************)
\* C18: when the hint is a provider name in any letter case, resolve returns
\* that provider, whatever projects and session-state are under the root.
C18_ExplicitHintWins ==
    (IsSome(resolved) /\ IsSome(source)) =>
        /\ source.v \in CaseVariants(ClaudeName) => resolved.v = "Claude"
        /\ source.v \in CaseVariants(CopilotName) => resolved.v = "Copilot"

\* the hint "Copilot" on a root that has only the projects directory
C18_Witness ==
    /\ source = Some(<<"C", "o", "p", "i", "l", "o", "t">>)
    /\ root.projects.kind = "dir"
    /\ root.session_state.kind = "absent"
    /\ resolved = Some("Copilot")

(***************************************************************************)
(* Claims about the scans of one root directory (SpecDiscover).            *)
(***************************************************************************)
\* C11: two scans of the same unmodified root yield the same files and the
\* same rows in the same order, whatever the orders in which read_dir returned
\* the directory entries.
C11_ScanDeterminism ==
    \A i, j \in 1..Len(scans) :
        /\ scans[i].files = scans[j].files
        /\ scans[i].rows = scans[j].rows

\* two scans of a tree of two project directories and three .jsonl files,
\* read in different orders: the same five rows
C11_Witness ==
    /\ Len(scans) = 2
    /\ scans[1].order # scans[2].order
    /\ Len(scans[1].order) = 3
    /\ Len(scans[1].files) = 3
    /\ Len(scans[1].rows) = 5
    /\ scans[1].rows = scans[2].rows

(***************************************************************************)
(* Claims about the scans of a root that lacks structure (SpecStructure).  *)
(***************************************************************************)
\* no hint names a provider and the root has neither projects nor
\* session-state as a directory: the provider is the unknown sentinel
ProviderUnknown ==
    /\ IsSome(source) => source.v \notin CaseVariants(ClaudeName) \cup CaseVariants(CopilotName)
    /\ root.projects.kind # "dir"
    /\ root.session_state.kind # "dir"

\* the length of the first chunk pulled from a table is 0
FirstPullEmpty(table) ==
    \A i \in 1..Len(first_pull) : first_pull[i].table = table => first_pull[i].len = 0

\* C19: a conversation scan of a root that is missing or has no projects
\* directory, and a history scan of a root that is missing or whose provider
\* is the unknown sentinel, return no rows and no error, and the first pull
\* on them returns zero rows.
C19_StructuralAbsenceIsEmpty ==
    /\ (~root.exists \/ root.projects.kind # "dir") =>
          /\ \A i \in 1..Len(scans) : scans[i].files = <<>> /\ scans[i].rows = <<>>
          /\ FirstPullEmpty("conversations")
    /\ (IsSome(hist) /\ (~root.exists \/ ProviderUnknown)) =>
          /\ hist.v.result = "Ok"
          /\ hist.v.rows = <<>>
          /\ FirstPullEmpty("history")

\* a root without projects and session-state whose history.jsonl holds a
\* line, under a hint that names no provider: both scans are empty, both
\* first pulls return zero rows
C19_Witness ==
    /\ root.exists
    /\ root.projects.kind = "absent"
    /\ root.session_state.kind = "absent"
    /\ root.history.lines # <<>>
    /\ source = Some(<<"g", "p", "t">>)
    /\ scans # <<>>
    /\ scans[1].rows = <<>>
    /\ hist = Some([result |-> "Ok", rows |-> <<>>])
    /\ Len(first_pull) = 2
    /\ FirstPullEmpty("conversations")
    /\ FirstPullEmpty("history")

(***************************************************************************)
(* Claims about files that do not open (Spec).                             *)
(***************************************************************************)
\* the discovered files that opened, with what was read from them, in
\* discovery order
OpenedFiles ==
    LET tried == [i \in 1..Len(disk) |-> [file |-> files[i], body |-> disk[i]]]
        Opened(z) == z.body.ok
    IN  SelectSeq(tried, Opened)

\* the rows of a scan in which only the files that opened were discovered
RowsWithoutUnopened ==
    LoadFiles([i \in 1..Len(OpenedFiles) |-> OpenedFiles[i].file],
              [i \in 1..Len(OpenedFiles) |-> OpenedFiles[i].body], <<>>)

\* C20: a discovered file that does not open contributes no row, the scan
\* goes on to every other discovered file, and the rows it returns are those
\* of a scan in which the files that did not open were never discovered.
C20_BadFileContained ==
    /\ \A i \in 1..Len(disk) : ~disk[i].ok => RowsOfFile(i) = <<>>
    /\ pc = "done" =>
          /\ Len(disk) = Len(files)
          /\ rows = RowsWithoutUnopened

\* the first of two discovered files does not open, the second gives rows
C20_Witness ==
    /\ pc = "done"
    /\ Len(files) = 2
    /\ Len(disk) = 2
    /\ ~disk[1].ok
    /\ disk[2].ok
    /\ Len(rows) >= 2
    /\ rows = RowsOfFile(2)

\* C21: the working-directory accumulator belongs to one file: while a file
\* is read it holds the first working directory that file declared so far
\* (nothing before its first declaration); in a processed file the project
\* path of a row is the working directory its own record declared, the
\* first one declared in the same file, or the provisional fallback, never
\* one declared in another file; and a file in which no record declares a
\* working directory keeps the fallback on all its rows.
AccumulatorOfCurrentFile ==
    pc = "lines" => file_cwd = FirstDeclared(disk[fileIdx].lines)
PathsOfOwnFile ==
    \A i \in FinishedFiles :
        LET ls == disk[i].lines
            rs == RowsOfFile(i)
            first == FirstDeclared(ls)
        IN  /\ \A k \in 1..Len(rs) :
                 \/ rs[k].project_path = Fallback(i)
                 \/ IsSome(rs[k].cwd) /\ rs[k].project_path = rs[k].cwd.v
                 \/ IsSome(first) /\ rs[k].project_path = first.v
            /\ IsNone(first)
               => \A k \in 1..Len(rs) : rs[k].project_path = Fallback(i)
C21_AccumulatorPerFile == AccumulatorOfCurrentFile /\ PathsOfOwnFile

\* C21 witness: two processed files of one project directory; the first
\* declared a working directory other than the fallback, the second
\* declared none and its row carries the fallback
C21_Witness ==
    /\ Len(files) = 2 /\ Finished(2)
    /\ files[1].project_dir = files[2].project_dir
    /\ IsSome(FirstDeclared(disk[1].lines))
    /\ FirstDeclared(disk[1].lines) # Some(Fallback(1))
    /\ IsNone(FirstDeclared(disk[2].lines))
    /\ Len(RowsOfFile(2)) >= 1
    /\ RowsOfFile(2)[1].project_path = Fallback(2)

\* C22: the rows of a file never change after the backfill pass of that
\* file: while a file is read the rows below file_rows_start are exactly the
\* rows of the earlier files, and no step, the backfill pass of a later file
\* included, changes or removes a row of a file whose pass is over; the pass
\* of a file changes rows of its own index range only.
StableLen == IF pc = "lines" THEN file_rows_start ELSE Len(rows)
RangeIsCurrentFile ==
    pc = "lines"
    => /\ file_rows_start <= Len(rows)
       /\ \A k \in 1..Len(rows) :
            IF k <= file_rows_start
            THEN FileIndexOf(rows[k]) < fileIdx
            ELSE FileIndexOf(rows[k]) = fileIdx
EarlierRowsKept ==
    /\ Len(rows') >= StableLen
    /\ \A k \in 1..StableLen : rows'[k] = rows[k]
C22_RowsImmutableAfterBackfill == []RangeIsCurrentFile /\ [][EarlierRowsKept]_vars

\* C22 witness: the backfill pass of the second file of a project directory
\* is over and has rewritten a row of that file, while the row of the first
\* file, which declared nothing, still carries the fallback
C22_Witness ==
    /\ Len(files) = 2 /\ Finished(2)
    /\ files[1].project_dir = files[2].project_dir
    /\ Len(RowsOfFile(1)) >= 1 /\ Len(RowsOfFile(2)) >= 2
    /\ RowsOfFile(1)[1].project_path = Fallback(1)
    /\ IsNone(RowsOfFile(2)[1].cwd)
    /\ RowsOfFile(2)[1].message_type # "_parse_error"
    /\ RowsOfFile(2)[1].project_path # Fallback(2)

\* C28 (as claimed): in a processed file, every row whose record declared a
\* working directory has that working directory as its project path, also
\* when the declared working directory equals the decoded fallback.
C28_DeclaredCwdKept ==
    \A i \in FinishedFiles :
        LET rs == RowsOfFile(i)
        IN  \A k \in 1..Len(rs) :
              IsSome(rs[k].cwd) => rs[k].project_path = rs[k].cwd.v

\* C29: the backfill pass of a file changes the project path field only:
\* the list keeps its length, and every row is after the pass what it was
\* before it in every field other than the project path (the cwd column of
\* a row that declared none stays null; line number, type and session id
\* stay, those of _parse_error rows too).
BackfillStep == pc = "lines" /\ pc' = "open"
OnlyProjectPathWritten ==
    BackfillStep
    => /\ Len(rows') = Len(rows)
       /\ \A k \in 1..Len(rows) :
            /\ [rows'[k] EXCEPT !.project_path = rows[k].project_path] = rows[k]
            /\ rows'[k].cwd = rows[k].cwd
            /\ rows'[k].line_number = rows[k].line_number
            /\ rows'[k].message_type = rows[k].message_type
            /\ rows'[k].session_id = rows[k].session_id
C29_BackfillWritesProjectPathOnly == [][OnlyProjectPathWritten]_vars

\* C29 witness: a processed file whose pass rewrote the project path of a
\* row that declared nothing and of a _parse_error row; both still have a
\* null cwd column and their own line numbers
C29_Witness ==
    \E i \in FinishedFiles :
        LET rs == RowsOfFile(i)
        IN  /\ Len(rs) = 3
            /\ rs[1].message_type = "summary" /\ rs[1].line_number = 1
            /\ rs[2].message_type = "_parse_error" /\ rs[2].line_number = 2
            /\ IsNone(rs[1].cwd) /\ IsNone(rs[2].cwd)
            /\ IsSome(rs[3].cwd) /\ rs[3].cwd.v # Fallback(i)
            /\ rs[1].project_path = rs[3].cwd.v
            /\ rs[2].project_path = rs[3].cwd.v

(***************************************************************************)
(* More claims about the projection of one record (SpecRow).               *)
(***************************************************************************)
\* the session id a file name stands for: the name minus .jsonl, and minus
\* the agent- prefix too for an agent file
NamedSessionId ==
    IF StartsWith(BaseName, AgentPrefix)
    THEN SubSeq(BaseName, Len(AgentPrefix) + 1, Len(BaseName))
    ELSE BaseName

\* C26 (as claimed): a row whose session id is derived from the file name
\* (a _parse_error row, or the row of a record that embeds no session id)
\* carries the name minus .jsonl for <uuid>.jsonl and the short id alone,
\* without the agent- prefix, for agent-<short-id>.jsonl.
C26_SessionIdFromFileName ==
    (/\ HasRecord /\ Len(rows) = 1
     /\ \/ TheRow.message_type = "_parse_error"
        \/ Rec.kind = "json" /\ IsNone(Rec.sessionId))
        => TheRow.session_id = NamedSessionId

(***************************************************************************)
(* More claims about the provider resolver (SpecResolve).                  *)
(***************************************************************************)
\* the hint names a provider, in some letter case
HintNamesProvider ==
    IsSome(source) /\ source.v \in CaseVariants(ClaudeName) \cup CaseVariants(CopilotName)

\* C30: when the hint is absent or names no known provider, resolve returns
\* Claude whenever projects is a directory under the root, whether or not
\* session-state is one too; Copilot when session-state is a directory and
\* projects is not; Unknown otherwise.  The answer depends on the root
\* alone, so a hint that names no provider is treated like no hint.
C30_DetectionPrecedence ==
    (IsSome(resolved) /\ ~HintNamesProvider)
        => resolved.v =
             (IF root.projects.kind = "dir" THEN "Claude"
              ELSE IF root.session_state.kind = "dir" THEN "Copilot"
              ELSE "Unknown")

\* C30 witness: an unrecognized hint on a root with both directories
\* resolves to Claude
C30_Witness ==
    /\ source = Some(<<"g", "p", "t">>)
    /\ root.projects.kind = "dir"
    /\ root.session_state.kind = "dir"
    /\ resolved = Some("Claude")

(***************************************************************************)
(* Claims about one cursor pulled by several threads (SpecShared).         *)
(***************************************************************************)
RECURSIVE SumSeq(_)
SumSeq(sq) == IF sq = <<>> THEN 0 ELSE Head(sq) + SumSeq(Tail(sq))

\* C27: when several threads pull from the same cursor, a thread inside
\* func holds the lock and the offset it loaded is still the cursor's
\* offset, so no two pulls work from the same offset; the rows handed out so
\* far, in the order of the returns, are the first offset rows of the list,
\* each once (the ranges are disjoint and leave no gap), their sizes add up
\* to the offset, and once an empty page has been returned the offset is
\* the row count and every row has been handed out.
PullsExclusive ==
    \A t \in Threads :
        tpc[t] = "entered"
        => /\ mutex[tq[t]] = t
           /\ t_offset[t] = OffsetOf(tq[t])
           /\ \A u \in Threads \ {t} : tq[u] = tq[t] => tpc[u] = "idle"
RangesPartition ==
    \A q \in Queries :
        qstate[q] = "ready"
        => /\ OffsetOf(q) <= Len(bind_rows[q])
           /\ delivered[q] = SubSeq(bind_rows[q], 1, OffsetOf(q))
           /\ SumSeq(page_sizes[q]) = OffsetOf(q)
           /\ (\E k \in 1..Pulls(q) : page_sizes[q][k] = 0)
              => /\ OffsetOf(q) = Len(bind_rows[q])
                 /\ delivered[q] = bind_rows[q]
C27_SharedCursorPartition == PullsExclusive /\ RangesPartition

\* C27 witness: two threads on one cursor over 5000 rows; the first got
\* rows 1..2048, the second rows 2049..4096, and the first is inside func
\* again with offset 4096
C27_Witness ==
    /\ tq[1] = tq[2]
    /\ Len(bind_rows[tq[1]]) = 5000
    /\ output[1] = SubSeq(bind_rows[tq[1]], 1, 2048)
    /\ output[2] = SubSeq(bind_rows[tq[1]], 2049, 4096)
    /\ tpc[1] = "entered"
    /\ t_offset[1] = 4096

(***************************************************************************)
(* Claims about the discovery functions (SpecFiles).                       *)
(***************************************************************************)
StrLess(a, b) == StrLessEq(a, b) /\ a # b

\* the regular files with the jsonl extension directly inside a
\* sub-directory of projects, as discovery entries
JsonlFilesOfProjects ==
    IF root.projects.kind # "dir" THEN {}
    ELSE UNION { { FileEntry(d.name, c.name) :
                     c \in {c \in d.children :
                              ~c.is_dir /\ extension(c.name) = Some(JsonlExt)} } :
                 d \in {d \in root.projects.entries : d.is_dir} }

\* C23 (as claimed): the conversation discovery returns exactly the regular
\* files with the jsonl extension that lie directly inside a sub-directory
\* of projects, each once, in the order of (sub-directory name, file name);
\* each entry carries the raw sub-directory name and is flagged agent-owned
\* exactly when its file name starts with agent-.
C23_ConversationDiscovery ==
    (IsSome(discovered) /\ discovered.v.call = "conversation_files")
    => LET es == discovered.v.entries
       IN  /\ {es[i] : i \in 1..Len(es)} = JsonlFilesOfProjects
           /\ \A i, j \in 1..Len(es) :
                i < j => \/ StrLess(es[i].project_dir, es[j].project_dir)
                         \/ /\ es[i].project_dir = es[j].project_dir
                            /\ StrLess(es[i].file_name, es[j].file_name)
           /\ \A i \in 1..Len(es) :
                es[i].is_agent <=> StartsWith(es[i].file_name, AgentPrefix)

\* C25 (as claimed): the event-file discovery returns its entries in
\* ascending order of session id, for every mix of session directories and
\* flat <session>.jsonl files; a session directory without events.jsonl
\* has no entry.
C25_EventFilesSortedBySessionId ==
    (IsSome(discovered) /\ discovered.v.call = "copilot_event_files")
    => LET es == discovered.v.entries
       IN  /\ \A i, j \in 1..Len(es) :
                i < j => StrLessEq(es[i].session_id, es[j].session_id)
           /\ \A i \in 1..Len(es) :
                \A e \in root.session_state.entries :
                    (e.is_dir /\ ~e.has_events) => es[i].file_path[1] # e.name

(***************************************************************************)
(* Claims about the loaders of whole-document JSON files (SpecDocs).       *)
(***************************************************************************)
ParseErrorText == <<"Parse error: ", DocDecodeError>>

\* the rows the todo loader emitted for the file of the given name
TodoRowsOf(rs, file_name) == SelectSeq(rs, LAMBDA r : r.file_name = file_name)

\* every todo file that is readable but does not decode has one row, with
\* status _parse_error and the error text, and every file that decodes has
\* one row per item, whatever the other files hold
TodosErrorRows(d) ==
    \A i \in 1..Len(d.input) :
        LET f == d.input[i]
            rs == TodoRowsOf(d.rows, f.file_name)
        IN  /\ (f.doc.ok /\ f.doc.kind # "json")
               => /\ Len(rs) = 1
                  /\ rs[1].status = "_parse_error"
                  /\ rs[1].content = ParseErrorText
            /\ (f.doc.ok /\ f.doc.kind = "json") => Len(rs) = Len(f.doc.value)

\* a stats-cache file that is readable but does not decode has a row that
\* carries the error text
StatsErrorRow(d) ==
    (d.input.ok /\ d.input.kind # "json")
    => \E k \in 1..Len(d.rows) : d.rows[k].date = ParseErrorText

\* a command-history file that is readable but does not decode has a row
\* that carries the error text
CommandHistoryErrorRow(d) ==
    (d.input.ok /\ d.input.lines[1].kind # "json")
    => \E k \in 1..Len(d.rows) : d.rows[k].display = Some(ParseErrorText)

\* C24 (as claimed): every JSON document that fails to decode as a whole (a
\* todo-list file, the stats-cache file, the command-history file of
\* provider B) yields a _parse_error row that carries the error text, and
\* the remaining files of the scan still yield their rows.
C24_DocumentDecodeFailureYieldsRow ==
    \A n \in 1..Len(docs) :
        LET d == docs[n]
        IN  /\ d.table = "todos" => TodosErrorRows(d)
            /\ d.table = "stats" => StatsErrorRow(d)
            /\ d.table = "history" => CommandHistoryErrorRow(d)

====
